---- MODULE Spec2Model ----
(***************************************************************************)
(* The RBAC authorization core of the School Management System             *)
(* (src/SMS/rbac): the UserRole / RolePermission / Permission tables, the  *)
(* RBACService operations over them and the PermissionAuditLog they write. *)
(*                                                                         *)
(* Database semantics assumed from the framework the code is written for:  *)
(*  - a unique_together constraint treats NULL as distinct from every      *)
(*    value, NULL included (SQL), so it binds only rows whose branch is    *)
(*    not NULL;                                                            *)
(*  - QuerySet.create() does not validate: a duplicate key surfaces as an  *)
(*    IntegrityError of the INSERT;                                        *)
(*  - leaving a transaction.atomic block by an exception rolls the block   *)
(*    back; a database error raised by a save() inside the block marks the *)
(*    transaction for rollback even when the exception is then caught, and *)
(*    the block is rolled back silently when it is left.                   *)
(***************************************************************************)
EXTENDS Integers, Sequences, FiniteSets, TLC

\* ------------------------------------------------------------------ bounds
MaxRows == 2      \* UserRole rows kept in storage
MaxTime == 1      \* instants of the clock: 0..MaxTime
MaxTxRows == 3    \* UserRole rows kept in storage by the concurrent requests
MaxCodes == 2     \* permission codes in the list of an any/all check
MaxSameRole == 2  \* Role rows with the same name and no tenant
MaxFeeRows == 3   \* BranchFeeStructure rows of a branch
MaxAmount == 3    \* the largest amount of money entered in a form
MaxStudents == 2  \* Student rows

\* ---------------------------------------------------------------- universe
NULL == "NULL"                    \* SQL NULL / Python None
NoExpiry == -1                    \* valid_until IS NULL (an open-ended row)
NoUser == NULL                    \* user=None passed by a caller
Anonymous == "AnonymousUser"      \* request.user of a request without login
Users == {"u1", "u2", "su"}       \* CustomUser rows
Callers == Users \cup {NoUser, Anonymous}
TargetUsers == {"u1"}             \* users that role assignments are made for
Roles == {"principal", "manager", "teacher"}
Branches == {"B1", "B2"}
AssignBranches == {NULL, "B1"}    \* branch argument of assign_role
CheckBranches == Branches \cup {NULL}
Perms == {"student.create", "student.view"}
ToggledPerms == {"student.create"}   \* the code an administrator switches
Actors == {NULL, "u1", "su"}      \* assigned_by / revoked_by; NULL: the system
Instants == 0..MaxTime
Expiries == {NoExpiry} \cup (0..(MaxTime - 1))   \* valid_until of assign_role
LogOutcomes == {"ok", "db_error"}   \* of the INSERT into PermissionAuditLog

Superusers == {"su"}              \* created by create_superuser
Procs == {"p1", "p2"}             \* the requests that are handled concurrently
is_superuser(u) == u \in Superusers

\* CustomUser instances are authenticated; None and AnonymousUser are not.
is_authenticated(u) == u \in Users

\* The Role rows of a second school, T2 (Roles are those of the school T1).
RolesOfSecondSchool == {"manager@T2", "teacher@T2"}

\* Role.name and Role.tenant of a Role row.
name_of_role(r) ==
    CASE r = "manager@T2" -> "manager"
      [] r = "teacher@T2" -> "teacher"
      [] OTHER -> r

tenant_of_role(r) == IF r \in RolesOfSecondSchool THEN "T2" ELSE "T1"

level_rank(r) ==
    CASE name_of_role(r) = "principal" -> 1
      [] name_of_role(r) = "manager" -> 2
      [] name_of_role(r) = "teacher" -> 4

\* The RolePermission links of the seeded matrix, cut to the modelled codes.
SeedRolePermissions ==
    {<<"principal", "student.create">>, <<"principal", "student.view">>,
     <<"manager", "student.create">>, <<"manager", "student.view">>,
     <<"teacher", "student.view">>}

VARIABLES
    userRoles,        \* the UserRole table: a sequence of rows, by primary key
    rolePermissions,  \* the RolePermission table: a set of <<role, code>>
    permissionActive, \* Permission.is_active, by code
    now,              \* timezone.now()
    last,             \* the most recent call: its arguments and its outcome
    tx,               \* the assign_role transaction each request has open
    tenants,          \* the SchoolTenant table: the schools registered
    roles,            \* the Role table: the number of rows by <<name, tenant>>
    permissionTable,  \* the Permission table: the codes that have a row
    accounts,         \* the user table: the user_type of each user created
    roleIsSystem,     \* Role.is_system_role: the number of rows that have it set,
                      \* by <<name, tenant>>
    roleIsActive,     \* Role.is_active, by <<name, tenant>>
    schoolActive,     \* SchoolTenant.is_active of the school T1
    branchActive,     \* Branch.is_active, by branch of the school T1
    branchDelete,     \* the branch_delete request each process is handling
    feeStructures,    \* the BranchFeeStructure rows of the branch B1: is_active,
                      \* by primary key
    feeSave,          \* the BranchFeeStructure.save() each process is in
    studentFee,       \* a StudentFee row: fee_type, net_amount, amount_paid,
                      \* status
    students,         \* the Student rows, by primary key: the branch of the
                      \* class of the section, and is_active
    branchManager     \* Branch.manager, by branch of either school

\* The tables around the RBAC core.
finance == <<feeStructures, feeSave, studentFee>>

enrolment == <<students, branchManager>>

campus == <<schoolActive, branchActive, branchDelete, finance, enrolment>>

site == <<tenants, roles, permissionTable, accounts, roleIsSystem, roleIsActive,
          campus>>

vars == <<userRoles, rolePermissions, permissionActive, now, last, tx, site>>

\* ------------------------------------------------------------- the tables
UserRoleRow(user, role, branch, valid_from, valid_until, is_active) ==
    [user |-> user, role |-> role, branch |-> branch, valid_from |-> valid_from,
     valid_until |-> valid_until, is_active |-> is_active]

AuditRow(user, action, permission_code, granted, reason) ==
    [user |-> user, action |-> action, permission_code |-> permission_code,
     granted |-> granted, reason |-> reason]

\* is_valid() with the end of the window excluded.
is_valid_exclusive(row, t) ==
    /\ row.is_active
    /\ t >= row.valid_from
    /\ (row.valid_until = NoExpiry \/ t < row.valid_until)

\* UserRole.is_valid() of a row at the instant t.
is_valid(row, t) ==
    /\ row.is_active
    /\ t >= row.valid_from
    /\ (row.valid_until = NoExpiry \/ t <= row.valid_until)

\* A deactivate() that saves the row as it was.
deactivate_unsaved(rows, i) == rows

\* UserRole.deactivate(): the row i saved with is_active=False.
deactivate(rows, i) == [rows EXCEPT ![i].is_active = FALSE]

\* The rows of one (user, role, branch) key; branch=None is matched as IS NULL.
KeyRows(rows, user, role, branch) ==
    {i \in DOMAIN rows :
        rows[i].user = user /\ rows[i].role = role /\ rows[i].branch = branch}

ActiveKeyRows(rows, user, role, branch) ==
    {i \in KeyRows(rows, user, role, branch) : rows[i].is_active}

\* unique_together = ['user', 'role', 'branch'] as the database enforces it on an
\* INSERT: a row with the same key exists and no column of the key is NULL.
ViolatesUniqueTogether(rows, user, role, branch) ==
    branch # NULL /\ KeyRows(rows, user, role, branch) # {}

\* ------------------------------------------------------------ the service
\* The validity filter without the branch clause.
ValidUserRolesAnyBranch(rows, t, user, branch) ==
    {i \in DOMAIN rows :
        /\ rows[i].user = user
        /\ rows[i].is_active
        /\ rows[i].valid_from <= t
        /\ (rows[i].valid_until = NoExpiry \/ rows[i].valid_until >= t)}

\* A filter that, given no branch, keeps the tenant-wide rows only.
ValidRolesTenantWideWhenUnscoped(rows, t, user, branch) ==
    {i \in DOMAIN rows :
        /\ rows[i].user = user
        /\ rows[i].is_active
        /\ rows[i].valid_from <= t
        /\ (rows[i].valid_until = NoExpiry \/ rows[i].valid_until >= t)
        /\ (rows[i].branch = branch \/ rows[i].branch = NULL)}

\* RBACService._get_valid_user_roles: the primary keys of the user's currently
\* valid rows, branch-filtered when a branch is given.
_get_valid_user_roles(rows, t, user, branch) ==
    {i \in DOMAIN rows :
        /\ rows[i].user = user
        /\ rows[i].is_active
        /\ rows[i].valid_from <= t
        /\ (rows[i].valid_until = NoExpiry \/ rows[i].valid_until >= t)
        /\ (branch # NULL => (rows[i].branch = branch \/ rows[i].branch = NULL))}

\* The validity filter with the disjunction taken over the whole condition.
CurrentlyValidWideOr(row, t) ==
    \/ (row.is_active /\ row.valid_from <= t /\ row.valid_until = NoExpiry)
    \/ row.valid_until >= t

\* The filter chain of the queries for currently valid rows:
\* .filter(is_active=True, valid_from__lte=now)
\* .filter(Q(valid_until__isnull=True) | Q(valid_until__gte=now))
CurrentlyValid(row, t) ==
    /\ row.is_active /\ row.valid_from <= t
    /\ (row.valid_until = NoExpiry \/ row.valid_until >= t)

\* RBACService.get_user_roles(user, branch, only_valid)
get_user_roles(rows, t, user, branch, only_valid) ==
    {i \in DOMAIN rows :
        /\ rows[i].user = user
        /\ (branch # NULL => (rows[i].branch = branch \/ rows[i].branch = NULL))
        /\ (only_valid => CurrentlyValid(rows[i], t))}

\* UserRoleSelector.get_user_roles(user, branch, only_valid)
selector_get_user_roles(rows, t, user, branch, only_valid) ==
    {i \in DOMAIN rows :
        /\ rows[i].user = user
        /\ (branch # NULL => (rows[i].branch = branch \/ rows[i].branch = NULL))
        /\ (only_valid => CurrentlyValid(rows[i], t))}

\* UserRoleSelector.get_users_by_role(role, branch, only_valid): the branch
\* filter of this query is branch=branch alone.
get_users_by_role(rows, t, role, branch, only_valid) ==
    {i \in DOMAIN rows :
        /\ rows[i].role = role
        /\ (branch # NULL => rows[i].branch = branch)
        /\ (only_valid => CurrentlyValid(rows[i], t))}

\* UserRoleSelector.get_role_summary_for_branch(branch): the rows counted
\* and the {role_name: count} returned.
get_role_summary_for_branch(rows, t, branch) ==
    LET assignments == {i \in DOMAIN rows :
                           /\ (rows[i].branch = branch \/ rows[i].branch = NULL)
                           /\ CurrentlyValid(rows[i], t)}
    IN [selected |-> assignments,
        summary |-> [r \in {rows[i].role : i \in assignments} |->
                        Cardinality({i \in assignments : rows[i].role = r})]]

\* PermissionAuditLog.objects.create inside try/except: the rows it adds and
\* whether the INSERT raised a database error.  user=None breaks the NOT NULL
\* foreign key (IntegrityError); an AnonymousUser is refused by the model
\* before any query (ValueError); otherwise the environment decides.
LogWrite(user, row, outcome) ==
    IF user = NoUser THEN [rows |-> <<>>, db_error |-> TRUE]
    ELSE IF user \notin Users THEN [rows |-> <<>>, db_error |-> FALSE]
    ELSE IF outcome = "ok" THEN [rows |-> <<row>>, db_error |-> FALSE]
    ELSE [rows |-> <<>>, db_error |-> TRUE]

\* RBACService._log_permission_check
_log_permission_check(user, permission_code, granted, reason, outcome) ==
    LogWrite(user, AuditRow(user, "check", permission_code, granted, reason), outcome)

\* RBACService._log_action
_log_action(action, user, role, performed_by, outcome) ==
    LogWrite(user,
             AuditRow(user, action, "role." \o action, TRUE,
                      "Role " \o name_of_role(role) \o " " \o action \o "ed by "
                          \o (IF performed_by # NULL THEN performed_by ELSE "system")),
             outcome)

\* The RolePermission query without its permission__is_active=True filter.
HasLinkIgnoringActive(rows, links, active, ids, permission_code) ==
    \E i \in ids : <<rows[i].role, permission_code>> \in links

\* A RolePermission query that leaves out the roles switched off.
HasLinkOfActiveRole(rows, links, active, ids, permission_code) ==
    \E i \in ids :
        /\ <<rows[i].role, permission_code>> \in links
        /\ active[permission_code]
        /\ roleIsActive[<<name_of_role(rows[i].role), tenant_of_role(rows[i].role)>>]

\* The RolePermission query of user_has_permission: a link from one of the
\* roles of the given UserRole rows to the active permission with this code.
HasLink(rows, links, active, ids, permission_code) ==
    \E i \in ids :
        /\ <<rows[i].role, permission_code>> \in links
        /\ active[permission_code]

\* A check that forgets the superuser bypass.
NoSuperuserBypass(user) == FALSE

\* "Superusers bypass all permission checks" of user_has_permission.
SuperuserBypass(user) == is_superuser(user)

\* RBACService.user_has_permission: the value returned and the audit write.
user_has_permission(rows, links, active, t, user, permission_code, branch, outcome) ==
    IF user = NoUser \/ ~is_authenticated(user)
    THEN [ret |-> FALSE,
          log |-> _log_permission_check(user, permission_code, FALSE,
                                     "User not authenticated", outcome)]
    ELSE IF SuperuserBypass(user)
    THEN [ret |-> TRUE,
          log |-> _log_permission_check(user, permission_code, TRUE,
                                     "Superuser access", outcome)]
    ELSE LET user_roles == _get_valid_user_roles(rows, t, user, branch) IN
         IF user_roles = {}
         THEN [ret |-> FALSE,
               log |-> _log_permission_check(user, permission_code, FALSE,
                                          "No valid roles found", outcome)]
         ELSE LET has_permission ==
                      HasLink(rows, links, active, user_roles, permission_code)
              IN [ret |-> has_permission,
                  log |-> _log_permission_check(user, permission_code,
                                             has_permission, "", outcome)]

\* A combinator that performs every individual check of the list.
RECURSIVE AnyWithoutShortCircuit(_, _, _, _, _, _, _, _)
AnyWithoutShortCircuit(rows, links, active, t, user, permission_codes, branch, outcome) ==
    IF permission_codes = <<>> THEN [ret |-> FALSE, log |-> <<>>]
    ELSE LET chk == user_has_permission(rows, links, active, t, user,
                                        Head(permission_codes), branch, outcome)
             rest == AnyWithoutShortCircuit(rows, links, active, t, user,
                                            Tail(permission_codes), branch, outcome)
         IN [ret |-> chk.ret \/ rest.ret, log |-> chk.log.rows \o rest.log]

\* RBACService.user_has_any_permission: the loop returns at the first check
\* that is True; the audit rows are those of the checks it made.
RECURSIVE user_has_any_permission(_, _, _, _, _, _, _, _)
user_has_any_permission(rows, links, active, t, user, permission_codes, branch, outcome) ==
    IF permission_codes = <<>> THEN [ret |-> FALSE, log |-> <<>>]
    ELSE LET chk == user_has_permission(rows, links, active, t, user,
                                        Head(permission_codes), branch, outcome)
         IN IF chk.ret THEN [ret |-> TRUE, log |-> chk.log.rows]
            ELSE LET rest == user_has_any_permission(rows, links, active, t, user,
                                                     Tail(permission_codes), branch,
                                                     outcome)
                 IN [ret |-> rest.ret, log |-> chk.log.rows \o rest.log]

\* RBACService.user_has_all_permissions: the loop returns at the first check
\* that is False.
RECURSIVE user_has_all_permissions(_, _, _, _, _, _, _, _)
user_has_all_permissions(rows, links, active, t, user, permission_codes, branch, outcome) ==
    IF permission_codes = <<>> THEN [ret |-> TRUE, log |-> <<>>]
    ELSE LET chk == user_has_permission(rows, links, active, t, user,
                                        Head(permission_codes), branch, outcome)
         IN IF ~chk.ret THEN [ret |-> FALSE, log |-> chk.log.rows]
            ELSE LET rest == user_has_all_permissions(rows, links, active, t, user,
                                                      Tail(permission_codes), branch,
                                                      outcome)
                 IN [ret |-> rest.ret, log |-> chk.log.rows \o rest.log]

\* RBACService.require_permission: what it raises.  The message of the
\* PermissionDenied reads user.email, which None and AnonymousUser do not have.
require_permission(rows, links, active, t, user, permission_code, branch, outcome) ==
    LET chk == user_has_permission(rows, links, active, t, user, permission_code,
                                 branch, outcome)
    IN [ret |-> chk.ret,
        log |-> chk.log,
        raised |-> IF chk.ret THEN "none"
                   ELSE IF user \in Users THEN "PermissionDenied"
                   ELSE "AttributeError",
        carries |-> IF ~chk.ret /\ user \in Users
                    THEN <<user, permission_code>> ELSE <<>>]

\* The view wrapped by the require_permission(permission_code) decorator,
\* called with a request: what _wrapped_view raises, whether view_func was
\* called, and the audit rows of the check.
require_permission_view(rows, links, active, t, request_user, permission_code) ==
    LET r == require_permission(rows, links, active, t, request_user,
                                permission_code, NULL, "ok")
    IN [raised |-> r.raised, handler |-> r.raised = "none", log |-> r.log.rows]

\* The view wrapped by the require_any_permission(permission_codes) decorator.
require_any_permission_view(rows, links, active, t, request_user, permission_codes) ==
    LET r == user_has_any_permission(rows, links, active, t, request_user,
                                     permission_codes, NULL, "ok")
    IN IF ~r.ret
       THEN [raised |-> "PermissionDenied", handler |-> FALSE, log |-> r.log]
       ELSE [raised |-> "none", handler |-> TRUE, log |-> r.log]

\* permission_codes.split(',') of the has_any_permission filter, its argument
\* given as the codes that were joined by commas: the empty string splits
\* into one empty code.
split(permission_codes) ==
    IF permission_codes = <<>> THEN <<"">> ELSE permission_codes

\* The template filter has_permission of rbac_tags: no branch is passed.
has_permission(rows, links, active, t, user, permission_code) ==
    user_has_permission(rows, links, active, t, user, permission_code, NULL, "ok")

\* The template filter has_any_permission of rbac_tags.
has_any_permission(rows, links, active, t, user, permission_codes) ==
    user_has_any_permission(rows, links, active, t, user, split(permission_codes),
                            NULL, "ok")

\* The list comprehension of get_user_permissions over the RolePermission rows
\* of the given roles whose permission is active: one entry per row.  The
\* query has no ordering, so the list is kept as the number of times each
\* code occurs in it.
CodesOfLinks(links, active, role_names) ==
    LET selected == {l \in links : l[1] \in role_names /\ active[l[2]]}
    IN [c \in {l[2] : l \in selected} |->
            Cardinality({l \in selected : l[2] = c})]

\* RBACService.get_user_permissions: the list returned.
get_user_permissions(rows, links, active, t, user, branch) ==
    IF is_superuser(user) THEN [c \in Perms |-> 1]
    ELSE LET user_roles == _get_valid_user_roles(rows, t, user, branch) IN
         IF user_roles = {} THEN <<>>
         ELSE CodesOfLinks(links, active, {rows[i].role : i \in user_roles})

\* The highest level_rank instead of the lowest: the rank inversion mistaken.
WorstRank(rows, ids) ==
    CHOOSE k \in {level_rank(rows[i].role) : i \in ids} :
        \A i \in ids : k >= level_rank(rows[i].role)

\* The lowest level_rank among the roles of the given rows.
BestRank(rows, ids) ==
    CHOOSE k \in {level_rank(rows[i].role) : i \in ids} :
        \A i \in ids : k <= level_rank(rows[i].role)

\* A hierarchy check that lets a manager act on roles of its own rank.
CanManageEqualRank(rows, t, manager, target_role) ==
    IF is_superuser(manager) THEN TRUE
    ELSE LET manager_roles == _get_valid_user_roles(rows, t, manager, NULL) IN
         IF manager_roles = {} THEN FALSE
         ELSE BestRank(rows, manager_roles) <= level_rank(target_role)

\* A hierarchy check that counts the manager's roles of the target role's
\* school only.
CanManageWithinTenant(rows, t, manager, target_role) ==
    IF is_superuser(manager) THEN TRUE
    ELSE LET manager_roles ==
                 {i \in _get_valid_user_roles(rows, t, manager, NULL) :
                     tenant_of_role(rows[i].role) = tenant_of_role(target_role)}
         IN IF manager_roles = {} THEN FALSE
            ELSE BestRank(rows, manager_roles) < level_rank(target_role)

\* A hierarchy check that refuses nobody.
CanManageAnyRole(rows, t, manager, target_role) == TRUE

\* RBACService._can_manage_role
_can_manage_role(rows, t, manager, target_role) ==
    IF is_superuser(manager) THEN TRUE
    ELSE LET manager_roles == _get_valid_user_roles(rows, t, manager, NULL) IN
         IF manager_roles = {} THEN FALSE
         ELSE BestRank(rows, manager_roles) < level_rank(target_role)

\* An assign_role that replaces the active rows of the key: they are deleted.
DeleteKey(rows, user, role, branch) ==
    SelectSeq(rows, LAMBDA r : ~(r.user = user /\ r.role = role
                                 /\ r.branch = branch /\ r.is_active))

\* The UPDATE of assign_role: every active row of the key is set inactive.
DeactivateKey(rows, user, role, branch) ==
    [i \in DOMAIN rows |->
        IF i \in ActiveKeyRows(rows, user, role, branch)
        THEN [rows[i] EXCEPT !.is_active = FALSE] ELSE rows[i]]

\* RBACService.assign_role under @transaction.atomic: the table it leaves, the
\* primary key of the row it returns (0: none), what it raises, its audit rows.
assign_role(rows, t, user, role, branch, assigned_by, valid_until, outcome) ==
    IF assigned_by # NULL /\ ~_can_manage_role(rows, t, assigned_by, role)
    THEN [rows |-> rows, ret |-> 0, raised |-> "PermissionDenied", log |-> <<>>]
    ELSE LET updated == DeactivateKey(rows, user, role, branch)
             created == Append(updated,
                               UserRoleRow(user, role, branch, t, valid_until, TRUE))
             log == _log_action("grant", user, role, assigned_by, outcome)
         IN IF ViolatesUniqueTogether(updated, user, role, branch)
            THEN \* the INSERT fails: the exception leaves the atomic block
                 [rows |-> rows, ret |-> 0, raised |-> "IntegrityError", log |-> <<>>]
            ELSE IF log.db_error
            THEN \* the caught error marked the transaction: silent rollback
                 [rows |-> rows, ret |-> Len(created), raised |-> "none", log |-> <<>>]
            ELSE [rows |-> created, ret |-> Len(created), raised |-> "none",
                  log |-> log.rows]

\* RBACService.revoke_role (no transaction of its own).
revoke_role(rows, t, i, revoked_by, outcome) ==
    IF revoked_by # NULL /\ ~_can_manage_role(rows, t, revoked_by, rows[i].role)
    THEN [rows |-> rows, raised |-> "PermissionDenied", log |-> <<>>]
    ELSE [rows |-> deactivate(rows, i), raised |-> "none",
          log |-> _log_action("revoke", rows[i].user, rows[i].role, revoked_by,
                            outcome).rows]

\* --------------------------------------------------------------- the calls
\* ------------------------------------------------------- the site tables
Tenants == {"T1"}
SecondTenants == {"T2"}
SystemRoleNames == {"superadmin"}
RoleKeys == (Roles \cup SystemRoleNames) \X (Tenants \cup SecondTenants \cup {NULL})

\* The codes create_permissions derives from its category/action matrix.
CreatedCodes == Perms \cup {"section.delete"}

\* No account: the user has not been created.
NoAccount == "NoAccount"
UserTypes == {"", "manager", "teacher"}

\* A site that is set up: the school registered, its roles and the system
\* role stored once each, the permissions stored, the users created.
\* The school and its branches, all active.
NoBranchDelete == [pc |-> "idle", branch |-> NULL, is_active |-> FALSE,
                   active_count |-> 0]

NoFeeSave == [pc |-> "idle", pk |-> 0, is_active |-> FALSE]

\* No StudentFee row generated yet.
NoFee == [fee_type |-> "none", net_amount |-> 0, amount_paid |-> 0,
          status |-> "none"]

\* The branches of both schools: B3 is a branch of the school T2.
AllBranches == Branches \cup {"B3"}
school_of_branch(b) == IF b \in Branches THEN "T1" ELSE "T2"

StudentIds == 1..MaxStudents
NoStudent == [branch |-> NULL, is_active |-> FALSE]

\* No student admitted yet; u2 is the manager of the branch B1.
EnrolmentSetUp ==
    /\ students = [i \in StudentIds |-> NoStudent]
    /\ branchManager = [b \in AllBranches |-> IF b = "B1" THEN "u2" ELSE NULL]

\* No fee structure stored yet, no fee generated.
FinanceSetUp ==
    /\ feeStructures = <<>>
    /\ feeSave = [p \in Procs |-> NoFeeSave]
    /\ studentFee = NoFee

CampusSetUp ==
    /\ schoolActive = TRUE
    /\ branchActive = [b \in Branches |-> TRUE]
    /\ branchDelete = [p \in Procs |-> NoBranchDelete]
    /\ FinanceSetUp
    /\ EnrolmentSetUp

SiteSetUp ==
    /\ tenants = Tenants
    /\ roles = [k \in RoleKeys |->
                  IF (k[1] \in Roles /\ k[2] \in Tenants)
                     \/ (k[1] \in SystemRoleNames /\ k[2] = NULL)
                  THEN 1 ELSE 0]
    /\ permissionTable = CreatedCodes
    /\ accounts = [u \in Users |-> IF u \in Superusers THEN "principal" ELSE "teacher"]
    /\ roleIsSystem = [k \in RoleKeys |->
                         IF k[1] \in SystemRoleNames /\ k[2] = NULL THEN 1 ELSE 0]
    /\ roleIsActive = [k \in RoleKeys |-> TRUE]
    /\ CampusSetUp

\* What `last` records of a call: its arguments, the row it returned or acted
\* on, the outcome of its audit write, whether it returned (and what a check
\* returned), what it raised and the PermissionAuditLog rows it added.
Call(op, user, role, code, branch, by, row, outcome, ret, raised, audit) ==
    [op |-> op, user |-> user, role |-> role, code |-> code, branch |-> branch,
     by |-> by, row |-> row, outcome |-> outcome, ret |-> ret, raised |-> raised,
     audit |-> audit, codes |-> <<>>, list |-> <<>>,
     only_valid |-> TRUE, selected |-> {}, summary |-> <<>>]

\* The record of a query for UserRole rows: the primary keys it selected.
CallSelect(op, user, role, branch, only_valid, selected) ==
    [Call(op, user, role, NULL, branch, NULL, 0, "ok", TRUE, "none", <<>>)
        EXCEPT !.only_valid = only_valid, !.selected = selected]

\* The record of a check over a list of permission codes.
CallList(op, user, branch, list, ret, audit) ==
    [Call(op, user, NULL, NULL, branch, NULL, 0, "ok", ret, "none", audit)
        EXCEPT !.list = list]

\* The record of a call that returned a list of permission codes.
CallCodes(op, user, branch, codes) ==
    [Call(op, user, NULL, NULL, branch, NULL, 0, "ok", TRUE, "none", <<>>)
        EXCEPT !.codes = codes]

\* A request with no transaction open.
NoTx == [pc |-> "idle", user |-> NULL, role |-> NULL, branch |-> NULL, by |-> NULL,
         valid_until |-> NoExpiry, targets |-> {}, locked |-> {}]

NoCall == Call("none", NULL, NULL, NULL, NULL, NULL, 0, "ok", FALSE, "none", <<>>)

Init ==
    /\ userRoles = <<>>
    /\ rolePermissions = SeedRolePermissions
    /\ permissionActive = [c \in Perms |-> TRUE]
    /\ now = 0
    /\ last = NoCall
    /\ tx = [p \in Procs |-> NoTx]
    /\ SiteSetUp

\* Calls are made one at a time: a call leaves its outcome in `last`, and the
\* caller takes it (Return) before the next call is made.
Idle == last.op = "none"

\* A caller evaluates rbac_service.user_has_permission(user, code, branch).
CallUserHasPermission ==
    /\ Idle
    /\ \E user \in Callers, code \in Perms, branch \in CheckBranches,
       outcome \in LogOutcomes :
        LET r == user_has_permission(userRoles, rolePermissions, permissionActive,
                                     now, user, code, branch, outcome)
        IN /\ last' = Call("user_has_permission", user, NULL, code, branch, NULL,
                           0, outcome, r.ret, "none", r.log.rows)
           /\ UNCHANGED <<site, userRoles, rolePermissions, permissionActive, now, tx>>

\* A caller evaluates rbac_service.require_permission(user, code, branch).
CallRequirePermission ==
    /\ Idle
    /\ \E user \in Callers, code \in Perms, branch \in CheckBranches :
        LET r == require_permission(userRoles, rolePermissions, permissionActive,
                                    now, user, code, branch, "ok")
        IN /\ last' = Call("require_permission", user, NULL, code, branch, NULL,
                           0, "ok", r.ret, r.raised, r.log.rows)
           /\ UNCHANGED <<site, userRoles, rolePermissions, permissionActive, now, tx>>

\* The users and the lists of codes the any/all checks are called with.
CombinatorUsers == {"u1", "su"}
CodeLists == UNION {[1..n -> Perms] : n \in 0..MaxCodes}

\* rbac_service.user_has_any_permission(user, permission_codes, branch)
CallUserHasAnyPermission ==
    /\ Idle
    /\ \E user \in CombinatorUsers, permission_codes \in CodeLists,
       branch \in AssignBranches :
        LET r == user_has_any_permission(userRoles, rolePermissions, permissionActive,
                                         now, user, permission_codes, branch, "ok")
        IN last' = CallList("user_has_any_permission", user, branch,
                            permission_codes, r.ret, r.log)
    /\ UNCHANGED <<site, userRoles, rolePermissions, permissionActive, now, tx>>

\* rbac_service.user_has_all_permissions(user, permission_codes, branch)
CallUserHasAllPermissions ==
    /\ Idle
    /\ \E user \in CombinatorUsers, permission_codes \in CodeLists,
       branch \in AssignBranches :
        LET r == user_has_all_permissions(userRoles, rolePermissions, permissionActive,
                                          now, user, permission_codes, branch, "ok")
        IN last' = CallList("user_has_all_permissions", user, branch,
                            permission_codes, r.ret, r.log)
    /\ UNCHANGED <<site, userRoles, rolePermissions, permissionActive, now, tx>>

\* request.user: the logged-in user, or AnonymousUser.
RequestUsers == Users \cup {Anonymous}

\* A request reaches a view decorated with @require_permission(code);
\* `ret` records whether the handler (view_func) ran.
RequestRequirePermissionView ==
    /\ Idle
    /\ \E request_user \in RequestUsers, permission_code \in Perms :
        LET r == require_permission_view(userRoles, rolePermissions, permissionActive,
                                         now, request_user, permission_code)
        IN last' = Call("view.require_permission", request_user, NULL,
                        permission_code, NULL, NULL, 0, "ok", r.handler, r.raised,
                        r.log)
    /\ UNCHANGED <<site, userRoles, rolePermissions, permissionActive, now, tx>>

\* A request reaches a view decorated with @require_any_permission(codes).
RequestRequireAnyPermissionView ==
    /\ Idle
    /\ \E request_user \in RequestUsers, permission_codes \in CodeLists :
        LET r == require_any_permission_view(userRoles, rolePermissions,
                                             permissionActive, now, request_user,
                                             permission_codes)
        IN last' = [CallList("view.require_any_permission", request_user, NULL,
                             permission_codes, r.handler, r.log)
                        EXCEPT !.raised = r.raised]
    /\ UNCHANGED <<site, userRoles, rolePermissions, permissionActive, now, tx>>

\* rbac_service.get_user_permissions(user, branch) for a stored user.
CallGetUserPermissions ==
    /\ Idle
    /\ \E user \in Users, branch \in CheckBranches :
        last' = CallCodes("get_user_permissions", user, branch,
                          get_user_permissions(userRoles, rolePermissions,
                                               permissionActive, now, user, branch))
    /\ UNCHANGED <<site, userRoles, rolePermissions, permissionActive, now, tx>>

\* rbac_service.assign_role(user, role, branch, assigned_by, valid_until)
CallAssignRole ==
    /\ Idle
    /\ \E user \in TargetUsers, role \in Roles, branch \in AssignBranches,
       assigned_by \in Actors,
       valid_until \in Expiries, outcome \in LogOutcomes :
        LET r == assign_role(userRoles, now, user, role, branch, assigned_by,
                             valid_until, outcome)
        IN /\ Len(r.rows) <= MaxRows
           /\ userRoles' = r.rows
           /\ last' = Call("assign_role", user, role, NULL, branch, assigned_by,
                           r.ret, outcome, r.raised = "none", r.raised, r.log)
           /\ UNCHANGED <<site, rolePermissions, permissionActive, now, tx>>

\* rbac_service.revoke_role(user_role, revoked_by) on a stored assignment.
CallRevokeRole ==
    /\ Idle
    /\ \E i \in DOMAIN userRoles, revoked_by \in Actors,
       outcome \in LogOutcomes :
        LET r == revoke_role(userRoles, now, i, revoked_by, outcome)
        IN /\ userRoles' = r.rows
           /\ last' = Call("revoke_role", userRoles[i].user, userRoles[i].role,
                           NULL, userRoles[i].branch, revoked_by, i, outcome,
                           r.raised = "none", r.raised, r.log)
           /\ UNCHANGED <<site, rolePermissions, permissionActive, now, tx>>

\* PermissionAdmin (list_editable is_active): an administrator switches a
\* permission off or on.
AdminSetPermissionActive ==
    /\ Idle
    /\ \E code \in ToggledPerms, value \in BOOLEAN :
        /\ permissionActive[code] # value
        /\ permissionActive' = [permissionActive EXCEPT ![code] = value]
        /\ UNCHANGED <<site, userRoles, rolePermissions, now, last, tx>>

\* Time passes.
Tick ==
    /\ Idle
    /\ now < MaxTime
    /\ now' = now + 1
    /\ UNCHANGED <<site, userRoles, rolePermissions, permissionActive, last, tx>>

\* The caller takes the outcome of its call.
Return ==
    /\ ~Idle
    /\ last' = NoCall
    /\ UNCHANGED <<site, userRoles, rolePermissions, permissionActive, now, tx>>

Next ==
    \/ CallUserHasPermission
    \/ CallRequirePermission
    \/ CallGetUserPermissions
    \/ RequestRequirePermissionView
    \/ RequestRequireAnyPermissionView
    \/ CallUserHasAnyPermission
    \/ CallUserHasAllPermissions
    \/ CallAssignRole
    \/ CallRevokeRole
    \/ AdminSetPermissionActive
    \/ Tick
    \/ Return

Spec == Init /\ [][Next]_vars

\* ------------------------------------------------- the validity of a row
\* UserRoleAdmin lets an administrator store an assignment with any window
\* and flag, and shows is_valid() of each row (validity_status).
AdminRows ==
    {UserRoleRow(user, role, branch, valid_from, valid_until, is_active) :
        user \in TargetUsers, role \in Roles, branch \in AssignBranches,
        valid_from \in Instants, valid_until \in Instants \cup {NoExpiry},
        is_active \in BOOLEAN}

InitValid ==
    /\ userRoles \in {<<row>> : row \in AdminRows}
    /\ rolePermissions = SeedRolePermissions
    /\ permissionActive = [c \in Perms |-> TRUE]
    /\ now \in Instants
    /\ last = NoCall
    /\ tx = [p \in Procs |-> NoTx]
    /\ SiteSetUp

\* The admin list evaluates obj.is_valid() of a stored row.
CallIsValid ==
    /\ Idle
    /\ \E i \in DOMAIN userRoles :
          /\ last' = Call("is_valid", userRoles[i].user, userRoles[i].role, NULL,
                          userRoles[i].branch, NULL, i, "ok",
                          is_valid(userRoles[i], now), "none", <<>>)
          /\ UNCHANGED <<site, userRoles, rolePermissions, permissionActive, now, tx>>

NextValid ==
    \/ CallIsValid
    \/ Tick
    \/ Return

SpecValid == InitValid /\ [][NextValid]_vars

\* ------------------------------------------------ roles switched off
\* RoleAdmin (list_editable is_active): an administrator switches a role of
\* the school off or on.
AdminSetRoleActive ==
    /\ Idle
    /\ \E name \in Roles, tenant \in Tenants, value \in BOOLEAN :
        /\ roleIsActive[<<name, tenant>>] # value
        /\ roleIsActive' = [roleIsActive EXCEPT ![<<name, tenant>>] = value]
    /\ UNCHANGED <<userRoles, rolePermissions, permissionActive, now, last, tx,
                   tenants, roles, permissionTable, accounts, roleIsSystem, campus>>

\* One stored assignment; roles are switched off and on and the service is
\* asked about the user.
NextRoleActive ==
    \/ AdminSetRoleActive
    \/ CallUserHasPermission
    \/ CallGetUserPermissions
    \/ Tick
    \/ Return

SpecRoleActive == InitValid /\ [][NextRoleActive]_vars

\* ------------------------------------------ the school/branch URLs
\* user.owned_school and user.managed_branch: u2 owns the school T1 and is
\* the manager of its branch B1; for the others the reverse accessor raises.
owned_school(user) == IF user = "u2" THEN "T1" ELSE NULL
managed_branch(user) == IF user = "u2" THEN "B1" ELSE NULL

\* An access rule for teachers and accountants that asks for a currently
\* valid assignment, tenant-wide ones included.
UserHasAccessWhenValid(rows, t, user_types, user, school, branch) ==
    IF is_superuser(user) THEN TRUE
    ELSE IF user_types[user] = "principal" THEN owned_school(user) = school
    ELSE IF user_types[user] = "manager" THEN managed_branch(user) = branch
    ELSE IF user_types[user] \in {"teacher", "accountant"}
    THEN _get_valid_user_roles(rows, t, user, branch) # {}
    ELSE FALSE

\* accounts.middleware._user_has_access(user, school, branch)
_user_has_access(rows, t, user_types, user, school, branch) ==
    IF is_superuser(user) THEN TRUE
    ELSE IF user_types[user] = "principal" THEN owned_school(user) = school
    ELSE IF user_types[user] = "manager" THEN managed_branch(user) = branch
    ELSE IF user_types[user] \in {"teacher", "accountant"}
    THEN \E i \in DOMAIN rows :
            rows[i].user = user /\ rows[i].branch = branch /\ rows[i].is_active
    ELSE FALSE

\* SchoolBranchMiddleware.process_view for a URL with a school_id and a
\* branch_id: what it raises ("none": request.current_branch is set and the
\* view runs).
process_view(rows, t, user_types, school_active, branch_active, user, school, branch) ==
    IF ~school_active THEN "Http404"
    ELSE IF ~branch_active[branch] THEN "Http404"
    ELSE IF is_authenticated(user)
            /\ ~_user_has_access(rows, t, user_types, user, school, branch)
    THEN "PermissionDenied"
    ELSE "none"

\* The user types of the users of the requests.
StaffTypes == {"principal", "manager", "teacher", "accountant", "parent"}

\* One stored assignment with any branch, window and flag; users of every
\* type, a superuser that is a teacher included; the school and its
\* branches active or not.
InitMiddleware ==
    /\ userRoles \in {<<row>> : row \in AdminRows}
    /\ rolePermissions = SeedRolePermissions
    /\ permissionActive = [c \in Perms |-> TRUE]
    /\ now \in Instants
    /\ last = NoCall
    /\ tx = [p \in Procs |-> NoTx]
    /\ tenants = Tenants
    /\ roles = [k \in RoleKeys |->
                  IF (k[1] \in Roles /\ k[2] \in Tenants)
                     \/ (k[1] \in SystemRoleNames /\ k[2] = NULL)
                  THEN 1 ELSE 0]
    /\ permissionTable = CreatedCodes
    /\ accounts \in {[u1 |-> t1, u2 |-> t2, su |-> t3] :
                        t1 \in StaffTypes, t2 \in {"principal", "manager"},
                        t3 \in {"principal", "teacher"}}
    /\ roleIsSystem = [k \in RoleKeys |->
                         IF k[1] \in SystemRoleNames /\ k[2] = NULL THEN 1 ELSE 0]
    /\ roleIsActive = [k \in RoleKeys |-> TRUE]
    /\ schoolActive \in BOOLEAN
    /\ branchActive \in [Branches -> BOOLEAN]
    /\ branchDelete = [p \in Procs |-> NoBranchDelete]
    /\ FinanceSetUp
    /\ EnrolmentSetUp

\* A request for a school/branch URL passes the middleware.
RequestSchoolBranchUrl ==
    /\ Idle
    /\ \E user \in RequestUsers, school \in tenants, branch \in Branches :
        LET raised == process_view(userRoles, now, accounts, schoolActive,
                                   branchActive, user, school, branch)
        IN last' = Call("process_view", user, NULL, NULL, branch, NULL, 0, "ok",
                        raised = "none", raised, <<>>)
    /\ UNCHANGED <<site, userRoles, rolePermissions, permissionActive, now, tx>>

NextMiddleware ==
    \/ RequestSchoolBranchUrl
    \/ Tick
    \/ Return

SpecMiddleware == InitMiddleware /\ [][NextMiddleware]_vars

\* ------------------------------------------------------ branch_delete
\* branch_delete, POST, by the principal of the school, one request per
\* process.  The view runs outside any transaction and takes no lock.
\* get_object_or_404(Branch, id=branch_id, school=school): the row is read.
BranchDeleteGet(p) ==
    /\ branchDelete[p].pc = "idle"
    /\ \E branch \in Branches :
        branchDelete' = [branchDelete EXCEPT ![p] =
                            [pc |-> "got", branch |-> branch,
                             is_active |-> branchActive[branch], active_count |-> 0]]
    /\ UNCHANGED <<userRoles, rolePermissions, permissionActive, now, last, tx,
                   tenants, roles, permissionTable, accounts, roleIsSystem,
                   roleIsActive, enrolment, schoolActive, branchActive, finance>>

\* active_count = school.branches.filter(is_active=True).count()
BranchDeleteCount(p) ==
    /\ branchDelete[p].pc = "got"
    /\ branchDelete' = [branchDelete EXCEPT ![p].pc = "counted",
                           ![p].active_count =
                               Cardinality({b \in Branches : branchActive[b]})]
    /\ UNCHANGED <<userRoles, rolePermissions, permissionActive, now, last, tx,
                   tenants, roles, permissionTable, accounts, roleIsSystem,
                   roleIsActive, enrolment, schoolActive, branchActive, finance>>

\* The POST branch: refused when the count read is at most one and the
\* branch read is active; otherwise branch.is_active = False; branch.save().
BranchDeletePost(p) ==
    /\ branchDelete[p].pc = "counted"
    /\ branchActive' =
          IF branchDelete[p].active_count <= 1 /\ branchDelete[p].is_active
          THEN branchActive
          ELSE [branchActive EXCEPT ![branchDelete[p].branch] = FALSE]
    /\ branchDelete' = [branchDelete EXCEPT ![p] = NoBranchDelete]
    /\ UNCHANGED <<userRoles, rolePermissions, permissionActive, now, last, tx,
                   tenants, roles, permissionTable, accounts, roleIsSystem,
                   roleIsActive, enrolment, schoolActive, finance>>

\* branch_update / BranchAdmin: a branch is made active again.
ActivateBranch ==
    /\ \E branch \in Branches :
        /\ ~branchActive[branch]
        /\ branchActive' = [branchActive EXCEPT ![branch] = TRUE]
    /\ UNCHANGED <<userRoles, rolePermissions, permissionActive, now, last, tx,
                   tenants, roles, permissionTable, accounts, roleIsSystem,
                   roleIsActive, enrolment, schoolActive, branchDelete, finance>>

NextBranchDelete ==
    \/ \E p \in Procs : BranchDeleteGet(p)
    \/ \E p \in Procs : BranchDeleteCount(p)
    \/ \E p \in Procs : BranchDeletePost(p)
    \/ ActivateBranch

SpecBranchDelete == Init /\ [][NextBranchDelete]_vars

\* ------------------------------------------- BranchFeeStructure.save
\* BranchFeeStructure.save() of a structure of the branch B1, as called by
\* edit_fee_structure (create: pk 0, or edit of a stored row) and by the
\* setup wizard, one call per process.  When is_active is set, the first
\* statement is the UPDATE that clears is_active of the other rows of the
\* branch.
FeeSaveDeactivateOthers(p) ==
    /\ feeSave[p].pc = "idle"
    /\ \E pk \in 0..Len(feeStructures), is_active \in BOOLEAN :
        /\ pk = 0 => Len(feeStructures) < MaxFeeRows
        /\ feeSave' = [feeSave EXCEPT ![p] =
                          [pc |-> "updated", pk |-> pk, is_active |-> is_active]]
        /\ feeStructures' =
              IF is_active
              THEN [i \in DOMAIN feeStructures |->
                       IF i # pk THEN FALSE ELSE feeStructures[i]]
              ELSE feeStructures
    /\ UNCHANGED <<userRoles, rolePermissions, permissionActive, now, last, tx,
                   tenants, roles, permissionTable, accounts, roleIsSystem,
                   roleIsActive, enrolment, schoolActive, branchActive, branchDelete,
                   studentFee>>

\* super().save(): the INSERT of a new row or the UPDATE of the row edited.
FeeSaveWrite(p) ==
    /\ feeSave[p].pc = "updated"
    /\ feeSave[p].pk = 0 => Len(feeStructures) < MaxFeeRows
    /\ feeStructures' =
          IF feeSave[p].pk = 0
          THEN Append(feeStructures, feeSave[p].is_active)
          ELSE [feeStructures EXCEPT ![feeSave[p].pk] = feeSave[p].is_active]
    /\ feeSave' = [feeSave EXCEPT ![p] = NoFeeSave]
    /\ UNCHANGED <<userRoles, rolePermissions, permissionActive, now, last, tx,
                   tenants, roles, permissionTable, accounts, roleIsSystem,
                   roleIsActive, enrolment, schoolActive, branchActive, branchDelete,
                   studentFee>>

NextFeeStructure ==
    \/ \E p \in Procs : FeeSaveDeactivateOthers(p)
    \/ \E p \in Procs : FeeSaveWrite(p)

SpecFeeStructure == Init /\ [][NextFeeStructure]_vars

\* ------------------------------------------------------- StudentFee
\* Amounts of money are whole numbers of the smallest unit.
Amounts == 0..MaxAmount

PAYMENT_TYPE_CHOICES == {"full", "partial"}

\* StudentFee.balance
balance(fee) == fee.net_amount - fee.amount_paid

\* StudentFee.record_payment(amount): the fee it saves.
record_payment(fee, amount) ==
    LET paid == fee.amount_paid + amount
    IN  IF paid >= fee.net_amount
        THEN [fee EXCEPT !.amount_paid = fee.net_amount, !.status = "paid"]
        ELSE [fee EXCEPT !.amount_paid = paid, !.status = "partial"]

\* RecordPaymentForm.is_valid(): clean_amount and clean.  A max_amount or
\* an amount of zero is falsy and skips both comparisons.
RecordPaymentForm(amount, payment_type, max_amount) ==
    /\ amount >= 0
    /\ ~ (max_amount # 0 /\ amount # 0 /\ amount > max_amount)
    /\ ~ (payment_type = "full" /\ max_amount # 0 /\ amount # 0
          /\ amount < max_amount)

\* The fee saved by the record_payment view for a valid form.
record_payment_view(fee, amount, payment_type) ==
    LET paid == fee.amount_paid + amount
    IN  IF payment_type = "full" \/ paid >= fee.net_amount
        THEN [fee EXCEPT !.amount_paid = fee.net_amount, !.status = "paid"]
        ELSE [fee EXCEPT !.amount_paid = paid, !.status = "partial"]

\* The record of a request or call on the StudentFee row: the amount and
\* the payment type entered, and whether the fee was saved.
CallFee(op, amount, payment_type, saved) ==
    Call(op, NULL, NULL, payment_type, NULL, NULL, amount, "ok", saved, "none",
         <<>>)

\* generate_fees: a special fee of the amount entered (GenerateFeeForm
\* requires a truthy amount), or an academic fee of the per-fee amount of
\* the structure less the scholarship deduction, which is capped at the
\* amount.
GenerateFee ==
    /\ Idle
    /\ studentFee = NoFee
    /\ \E fee_type \in {"academic", "special"}, net \in Amounts :
        /\ fee_type = "special" => net > 0
        /\ studentFee' = [fee_type |-> fee_type, net_amount |-> net,
                          amount_paid |-> 0, status |-> "unpaid"]
        /\ last' = CallFee("generate_fees", net, fee_type, TRUE)
    /\ UNCHANGED <<userRoles, rolePermissions, permissionActive, now, tx,
                   tenants, roles, permissionTable, accounts, roleIsSystem,
                   roleIsActive, enrolment, schoolActive, branchActive, branchDelete,
                   feeStructures, feeSave>>

\* POST to the record_payment view.  A fee that is already paid is
\* answered with a redirect before the form is read; an invalid form
\* renders the page again; a valid one saves the fee.
RequestRecordPayment ==
    /\ Idle
    /\ studentFee # NoFee
    /\ \E amount \in Amounts, payment_type \in PAYMENT_TYPE_CHOICES :
        LET saved == /\ studentFee.status # "paid"
                     /\ RecordPaymentForm(amount, payment_type,
                                          balance(studentFee))
        IN  /\ studentFee' = IF saved
                             THEN record_payment_view(studentFee, amount,
                                                      payment_type)
                             ELSE studentFee
            /\ last' = CallFee("record_payment_view", amount, payment_type,
                               saved)
    /\ UNCHANGED <<userRoles, rolePermissions, permissionActive, now, tx,
                   tenants, roles, permissionTable, accounts, roleIsSystem,
                   roleIsActive, enrolment, schoolActive, branchActive, branchDelete,
                   feeStructures, feeSave>>

\* A call of StudentFee.record_payment(amount) followed by its save().
CallRecordPayment ==
    /\ Idle
    /\ studentFee # NoFee
    /\ \E amount \in Amounts :
        /\ studentFee' = record_payment(studentFee, amount)
        /\ last' = CallFee("record_payment", amount, "partial", TRUE)
    /\ UNCHANGED <<userRoles, rolePermissions, permissionActive, now, tx,
                   tenants, roles, permissionTable, accounts, roleIsSystem,
                   roleIsActive, enrolment, schoolActive, branchActive, branchDelete,
                   feeStructures, feeSave>>

\* POST to edit_special_fee with a valid EditSpecialFeeForm (amount with
\* min_value 0): amount and net_amount take the amount entered; amount_paid
\* and status stay as stored.  An academic fee is answered with 404.
RequestEditSpecialFee ==
    /\ Idle
    /\ studentFee.fee_type = "special"
    /\ \E amount \in Amounts :
        /\ studentFee' = [studentFee EXCEPT !.net_amount = amount]
        /\ last' = CallFee("edit_special_fee", amount, "none", TRUE)
    /\ UNCHANGED <<userRoles, rolePermissions, permissionActive, now, tx,
                   tenants, roles, permissionTable, accounts, roleIsSystem,
                   roleIsActive, enrolment, schoolActive, branchActive, branchDelete,
                   feeStructures, feeSave>>

NextStudentFee ==
    \/ GenerateFee
    \/ RequestRecordPayment
    \/ CallRecordPayment
    \/ RequestEditSpecialFee
    \/ Return

SpecStudentFee == Init /\ [][NextStudentFee]_vars

\* ------------------------------------------------ the principal dashboard
\* user.managed_branch, the reverse accessor of Branch.manager: the branch
\* whose manager is the user, None when hasattr() is false.
managed_branch_of(manager, user) ==
    IF \E b \in AllBranches : manager[b] = user
    THEN CHOOSE b \in AllBranches : manager[b] = user
    ELSE NULL

\* BaseDashboardService.__init__: self.school.  The users of the model have
\* no staff, student or parent profile, so _resolve_school returns None.
service_school(manager, user) ==
    IF owned_school(user) # NULL THEN owned_school(user)
    ELSE IF managed_branch_of(manager, user) # NULL
    THEN school_of_branch(managed_branch_of(manager, user))
    ELSE NULL

\* BaseDashboardService._resolve_branch
_resolve_branch(manager, user) == managed_branch_of(manager, user)

\* PrincipalDashboardService._get_kpis: total_students, the count of
\* Student.objects.filter(is_active=True, **branch_filter).
total_students(rows, school, branch) ==
    Cardinality({i \in StudentIds :
        /\ rows[i] # NoStudent
        /\ rows[i].is_active
        /\ IF branch # NULL
           THEN rows[i].branch = branch
           ELSE school_of_branch(rows[i].branch) = school})

\* The record of a dashboard context: context['school'] (in `code`),
\* context['branch'] and kpis['total_students'] (in `row`).
CallDashboard(op, user, school, branch, total) ==
    Call(op, user, NULL, school, branch, NULL, total, "ok", TRUE, "none", <<>>)

\* The users the principal service is built for: the owner of the school T1
\* and the superuser (DashboardView.get_service).
DashboardUsers == {"u2", "su"}

\* The school is set up, its owner u2 has user_type 'principal'; its
\* branches are active or not.
InitDashboard ==
    /\ userRoles = <<>>
    /\ rolePermissions = SeedRolePermissions
    /\ permissionActive = [c \in Perms |-> TRUE]
    /\ now = 0
    /\ last = NoCall
    /\ tx = [p \in Procs |-> NoTx]
    /\ tenants = Tenants
    /\ roles = [k \in RoleKeys |->
                  IF (k[1] \in Roles /\ k[2] \in Tenants)
                     \/ (k[1] \in SystemRoleNames /\ k[2] = NULL)
                  THEN 1 ELSE 0]
    /\ permissionTable = CreatedCodes
    /\ accounts = [u1 |-> "teacher", u2 |-> "principal", su |-> "principal"]
    /\ roleIsSystem = [k \in RoleKeys |->
                         IF k[1] \in SystemRoleNames /\ k[2] = NULL THEN 1 ELSE 0]
    /\ roleIsActive = [k \in RoleKeys |-> TRUE]
    /\ schoolActive = TRUE
    /\ branchActive \in [Branches -> BOOLEAN]
    /\ branchDelete = [p \in Procs |-> NoBranchDelete]
    /\ FinanceSetUp
    /\ EnrolmentSetUp

\* A student is admitted to a section of a branch of either school, or a
\* stored student is moved or has is_active changed.
SaveStudent ==
    /\ Idle
    /\ \E i \in StudentIds, branch \in AllBranches, is_active \in BOOLEAN :
        students' = [students EXCEPT ![i] =
                        [branch |-> branch, is_active |-> is_active]]
    /\ UNCHANGED <<userRoles, rolePermissions, permissionActive, now, last, tx,
                   tenants, roles, permissionTable, accounts, roleIsSystem,
                   roleIsActive, schoolActive, branchActive, branchDelete,
                   finance, branchManager>>

\* BranchAdmin change form: the manager field (a OneToOneField to any user)
\* of a branch is set to the owner of T1 or cleared; the form rejects a
\* user who is the manager of another branch.
AdminSetBranchManager ==
    /\ Idle
    /\ \E b \in AllBranches, user \in {"u2", NULL} :
        /\ user # NULL => \A o \in AllBranches \ {b} : branchManager[o] # user
        /\ branchManager' = [branchManager EXCEPT ![b] = user]
    /\ UNCHANGED <<userRoles, rolePermissions, permissionActive, now, last, tx,
                   tenants, roles, permissionTable, accounts, roleIsSystem,
                   roleIsActive, schoolActive, branchActive, branchDelete,
                   finance, students>>

\* PrincipalDashboardService(user).get_context(), as the tests call it.
CallPrincipalDashboardService ==
    /\ Idle
    /\ \E user \in DashboardUsers :
        LET school == service_school(branchManager, user)
            branch == _resolve_branch(branchManager, user)
        IN  last' = CallDashboard("PrincipalDashboardService", user, school,
                                  branch, total_students(students, school, branch))
    /\ UNCHANGED <<site, userRoles, rolePermissions, permissionActive, now, tx>>

\* DashboardView.get_context_data for a user served by the principal
\* service, with ?branch=<id> or 'all'.  For a user of type 'principal'
\* that owns a school the branch of the service is replaced by the branch
\* selected, which is an active branch of that school or None.
RequestDashboardView ==
    /\ Idle
    /\ \E user \in DashboardUsers, branch_param \in AllBranches \cup {"all"} :
        /\ is_superuser(user) \/ accounts[user] = "principal"
        /\ LET school == service_school(branchManager, user)
               selected_branch ==
                   IF /\ branch_param # "all"
                      /\ school_of_branch(branch_param) = owned_school(user)
                      /\ branchActive[branch_param]
                   THEN branch_param ELSE NULL
               branch ==
                   IF accounts[user] = "principal" /\ owned_school(user) # NULL
                   THEN selected_branch
                   ELSE _resolve_branch(branchManager, user)
           IN  last' = CallDashboard("DashboardView", user, school, branch,
                                     total_students(students, school, branch))
    /\ UNCHANGED <<site, userRoles, rolePermissions, permissionActive, now, tx>>

NextDashboard ==
    \/ SaveStudent
    \/ AdminSetBranchManager
    \/ CallPrincipalDashboardService
    \/ RequestDashboardView
    \/ Return

SpecDashboard == InitDashboard /\ [][NextDashboard]_vars

\* ------------------------------------- checks made without a branch
\* A template evaluates user|has_permission:"code".
RenderHasPermission ==
    /\ Idle
    /\ \E user \in RequestUsers, permission_code \in Perms :
        LET r == has_permission(userRoles, rolePermissions, permissionActive, now,
                                user, permission_code)
        IN last' = Call("tag.has_permission", user, NULL, permission_code, NULL,
                        NULL, 0, "ok", r.ret, "none", r.log.rows)
    /\ UNCHANGED <<site, userRoles, rolePermissions, permissionActive, now, tx>>

\* A template evaluates user|has_any_permission:"code,code".
RenderHasAnyPermission ==
    /\ Idle
    /\ \E user \in RequestUsers, permission_codes \in CodeLists :
        LET r == has_any_permission(userRoles, rolePermissions, permissionActive,
                                    now, user, permission_codes)
        IN last' = CallList("tag.has_any_permission", user, NULL, permission_codes,
                            r.ret, r.log)
    /\ UNCHANGED <<site, userRoles, rolePermissions, permissionActive, now, tx>>

\* One stored assignment with any branch, window and flag; the service, the
\* decorated views and the template filters are asked about the user.
NextBranch ==
    \/ CallUserHasPermission
    \/ RequestRequirePermissionView
    \/ RequestRequireAnyPermissionView
    \/ RenderHasPermission
    \/ RenderHasAnyPermission
    \/ Tick
    \/ Return

SpecBranch == InitValid /\ [][NextBranch]_vars

\* ------------------------------------------- the queries for valid rows
\* The UserRole table holds two rows with any flag and window an administrator
\* can give them; the service and the selectors are asked for the currently
\* valid rows.
InitSelect ==
    /\ userRoles \in {<<r1, r2>> : r1 \in AdminRows, r2 \in AdminRows}
    /\ rolePermissions = SeedRolePermissions
    /\ permissionActive = [c \in Perms |-> TRUE]
    /\ now \in Instants
    /\ last = NoCall
    /\ tx = [p \in Procs |-> NoTx]
    /\ SiteSetUp

CallGetValidUserRoles ==
    /\ Idle
    /\ \E user \in TargetUsers, branch \in CheckBranches :
        last' = CallSelect("_get_valid_user_roles", user, NULL, branch, TRUE,
                           _get_valid_user_roles(userRoles, now, user, branch))
    /\ UNCHANGED <<site, userRoles, rolePermissions, permissionActive, now, tx>>

CallGetUserRoles ==
    /\ Idle
    /\ \E user \in TargetUsers, branch \in CheckBranches, only_valid \in BOOLEAN :
        last' = CallSelect("get_user_roles", user, NULL, branch, only_valid,
                           get_user_roles(userRoles, now, user, branch, only_valid))
    /\ UNCHANGED <<site, userRoles, rolePermissions, permissionActive, now, tx>>

CallSelectorGetUserRoles ==
    /\ Idle
    /\ \E user \in TargetUsers, branch \in CheckBranches, only_valid \in BOOLEAN :
        last' = CallSelect("selector.get_user_roles", user, NULL, branch, only_valid,
                           selector_get_user_roles(userRoles, now, user, branch,
                                                   only_valid))
    /\ UNCHANGED <<site, userRoles, rolePermissions, permissionActive, now, tx>>

CallGetUsersByRole ==
    /\ Idle
    /\ \E role \in Roles, branch \in CheckBranches, only_valid \in BOOLEAN :
        last' = CallSelect("selector.get_users_by_role", NULL, role, branch,
                           only_valid,
                           get_users_by_role(userRoles, now, role, branch, only_valid))
    /\ UNCHANGED <<site, userRoles, rolePermissions, permissionActive, now, tx>>

CallGetRoleSummaryForBranch ==
    /\ Idle
    /\ \E branch \in Branches :
        LET r == get_role_summary_for_branch(userRoles, now, branch)
        IN last' = [CallSelect("selector.get_role_summary_for_branch", NULL, NULL,
                               branch, TRUE, r.selected)
                        EXCEPT !.summary = r.summary]
    /\ UNCHANGED <<site, userRoles, rolePermissions, permissionActive, now, tx>>

NextSelect ==
    \/ CallGetValidUserRoles
    \/ CallGetUserRoles
    \/ CallSelectorGetUserRoles
    \/ CallGetUsersByRole
    \/ CallGetRoleSummaryForBranch
    \/ Tick
    \/ Return

SpecSelect == InitSelect /\ [][NextSelect]_vars

\* --------------------------------------------- grants between users
\* Users grant roles to each other and to themselves: assign_role with the
\* system, a superuser or either of two ordinary users as assigned_by.
GrantUsers == {"u1", "u2"}
GrantActors == {NULL, "u1", "u2", "su"}

InitGrant ==
    /\ userRoles = <<>>
    /\ rolePermissions = SeedRolePermissions
    /\ permissionActive = [c \in Perms |-> TRUE]
    /\ now = 0
    /\ last = NoCall
    /\ tx = [p \in Procs |-> NoTx]
    /\ SiteSetUp

CallAssignRoleAmongUsers ==
    /\ Idle
    /\ \E user \in GrantUsers, role \in Roles, assigned_by \in GrantActors,
       valid_until \in Expiries :
        LET r == assign_role(userRoles, now, user, role, NULL, assigned_by,
                             valid_until, "ok")
        IN /\ Len(r.rows) <= MaxRows
           /\ userRoles' = r.rows
           /\ last' = Call("assign_role", user, role, NULL, NULL, assigned_by,
                           r.ret, "ok", r.raised = "none", r.raised, r.log)
    /\ UNCHANGED <<site, rolePermissions, permissionActive, now, tx>>

NextGrant ==
    \/ CallAssignRoleAmongUsers
    \/ Tick
    \/ Return

SpecGrant == InitGrant /\ [][NextGrant]_vars

\* ------------------------------------------- two schools on one site
\* The site with the roles of a second school stored as well.
TwoSchoolsSetUp ==
    /\ tenants = Tenants \cup SecondTenants
    /\ roles = [k \in RoleKeys |->
                  IF \/ k[1] \in Roles /\ k[2] \in Tenants
                     \/ k[1] \in {name_of_role(r) : r \in RolesOfSecondSchool}
                        /\ k[2] \in SecondTenants
                     \/ k[1] \in SystemRoleNames /\ k[2] = NULL
                  THEN 1 ELSE 0]
    /\ permissionTable = CreatedCodes
    /\ accounts = [u \in Users |-> IF u \in Superusers THEN "principal" ELSE "teacher"]
    /\ roleIsSystem = [k \in RoleKeys |->
                         IF k[1] \in SystemRoleNames /\ k[2] = NULL THEN 1 ELSE 0]
    /\ roleIsActive = [k \in RoleKeys |-> TRUE]
    /\ CampusSetUp

InitTenants ==
    /\ userRoles = <<>>
    /\ rolePermissions = SeedRolePermissions
    /\ permissionActive = [c \in Perms |-> TRUE]
    /\ now = 0
    /\ last = NoCall
    /\ tx = [p \in Procs |-> NoTx]
    /\ TwoSchoolsSetUp

\* rbac_service.assign_role with roles and users of either school.
CallAssignRoleAcrossTenants ==
    /\ Idle
    /\ \E user \in GrantUsers, role \in Roles \cup RolesOfSecondSchool,
       assigned_by \in GrantActors :
        LET r == assign_role(userRoles, now, user, role, NULL, assigned_by,
                             NoExpiry, "ok")
        IN /\ Len(r.rows) <= MaxRows
           /\ userRoles' = r.rows
           /\ last' = Call("assign_role", user, role, NULL, NULL, assigned_by,
                           r.ret, "ok", r.raised = "none", r.raised, r.log)
    /\ UNCHANGED <<site, rolePermissions, permissionActive, now, tx>>

\* rbac_service.revoke_role on a stored assignment of either school.
CallRevokeRoleAcrossTenants ==
    /\ Idle
    /\ \E i \in DOMAIN userRoles, revoked_by \in GrantActors :
        LET r == revoke_role(userRoles, now, i, revoked_by, "ok")
        IN /\ userRoles' = r.rows
           /\ last' = Call("revoke_role", userRoles[i].user, userRoles[i].role,
                           NULL, userRoles[i].branch, revoked_by, i, "ok",
                           r.raised = "none", r.raised, r.log)
    /\ UNCHANGED <<site, rolePermissions, permissionActive, now, tx>>

NextTenants ==
    \/ CallAssignRoleAcrossTenants
    \/ CallRevokeRoleAcrossTenants
    \/ Tick
    \/ Return

SpecTenants == InitTenants /\ [][NextTenants]_vars

\* ------------------------------------------ seeding and user creation
\* The Permissions enum: member name |-> value.  Its values are the registry
\* (Perms) that get_all_permissions() returns.
Permissions ==
    [STUDENT_CREATE |-> "student.create", STUDENT_VIEW |-> "student.view"]

get_all_permissions(enum) == {enum[m] : m \in DOMAIN enum}

\* The enum members that the permission_matrix literal of
\* assign_role_permissions reads for each role other than principal (which
\* gets all_permissions): the manager list reads SECTION_DELETE, which is
\* not a member of the enum.
MatrixMembers ==
    [manager |-> <<"STUDENT_VIEW", "STUDENT_CREATE", "SECTION_DELETE", "STUDENT_VIEW">>,
     teacher |-> <<"STUDENT_VIEW">>]

\* Evaluating the literal raises AttributeError at the first missing member.
MatrixEvaluates(enum) ==
    \A r \in DOMAIN MatrixMembers :
        \A j \in DOMAIN MatrixMembers[r] : MatrixMembers[r][j] \in DOMAIN enum

permission_matrix(enum, role_name) ==
    IF role_name = "principal" THEN get_all_permissions(enum)
    ELSE {enum[MatrixMembers[role_name][j]] : j \in DOMAIN MatrixMembers[role_name]}

\* Command.assign_role_permissions(tenant, roles, force): what it raises and
\* the RolePermission table it leaves.  A code is linked when its Permission
\* row exists and is active (get_or_create: no second row for a link).
assign_role_permissions(links, table, active, enum, force) ==
    IF ~MatrixEvaluates(enum)
    THEN [raised |-> "AttributeError", links |-> links]
    ELSE LET kept == IF force THEN {} ELSE links
             found == {c \in table : c \in Perms /\ active[c]}
         IN [raised |-> "none",
             links |-> kept \cup {l \in Roles \X found :
                                     l[2] \in permission_matrix(enum, l[1])}]

\* update_or_create(name=..., tenant=...) on the Role table.
UpsertRole(table, name, tenant) ==
    IF table[<<name, tenant>>] = 0
    THEN [table EXCEPT ![<<name, tenant>>] = 1] ELSE table

RECURSIVE UpsertRoles(_, _, _)
UpsertRoles(table, names, tenant) ==
    IF names = {} THEN table
    ELSE LET name == CHOOSE n \in names : TRUE
         IN UpsertRoles(UpsertRole(table, name, tenant), names \ {name}, tenant)

\* Command.seed_for_tenant(tenant, force): the roles are upserted, then
\* assign_role_permissions runs; no transaction of its own.
seed_for_tenant(table, links, ptable, active, enum, tenant, force) ==
    LET seeded == UpsertRoles(table, Roles, tenant)
        r == assign_role_permissions(links, ptable, active, enum, force)
    IN [roles |-> seeded, links |-> r.links, raised |-> r.raised]

\* Command.seed_all(force) under @transaction.atomic: create_permissions,
\* create_system_roles, then seed_for_tenant for every tenant; an exception
\* rolls everything back.
seed_all(table, links, ptable, active, schools, enum, force) ==
    LET created == ptable \cup CreatedCodes
        activated == [c \in Perms |-> TRUE]
        system == UpsertRole(table, "superadmin", NULL)
        t == IF schools = {} THEN [roles |-> system, links |-> links, raised |-> "none"]
             ELSE seed_for_tenant(system, links, created, activated, enum,
                                  CHOOSE x \in schools : TRUE, force)
    IN IF table[<<"superadmin", NULL>>] > 1
       THEN [roles |-> table, links |-> links, ptable |-> ptable, active |-> active,
             raised |-> "MultipleObjectsReturned"]
       ELSE IF t.raised # "none"
       THEN [roles |-> table, links |-> links, ptable |-> ptable, active |-> active,
             raised |-> t.raised]
       ELSE [roles |-> t.roles, links |-> t.links, ptable |-> created,
             active |-> activated, raised |-> "none"]

\* assign_default_role, the post_save handler of the user model.  The user
\* model has no `tenant` attribute, so getattr(instance, 'tenant', None) is
\* None and the role is looked up with tenant IS NULL.
assign_default_role(rows, table, t, user, created, user_type, outcome) ==
    IF ~created \/ user_type = ""
    THEN [rows |-> rows, raised |-> "none", log |-> <<>>]
    ELSE LET tenant == NULL
             found == table[<<user_type, tenant>>]
         IN IF found = 0   \* Role.DoesNotExist: skipped silently
            THEN [rows |-> rows, raised |-> "none", log |-> <<>>]
            ELSE IF found > 1
            THEN [rows |-> rows, raised |-> "MultipleObjectsReturned", log |-> <<>>]
            ELSE LET r == assign_role(rows, t, user, user_type, NULL, NULL,
                                      NoExpiry, outcome)
                 IN [rows |-> r.rows, raised |-> r.raised, log |-> r.log]

\* The users that sign up, and the roles an administrator adds without a
\* tenant (RoleAdmin; unique_together does not bind a NULL tenant).
SignupUsers == {"u1", "u2"}
AdminRoleNames == {"manager", "teacher"}

\* A site before anything is set up: only the superuser exists.
InitSite ==
    /\ userRoles = <<>>
    /\ rolePermissions = {}
    /\ permissionActive = [c \in Perms |-> TRUE]
    /\ now = 0
    /\ last = NoCall
    /\ tx = [p \in Procs |-> NoTx]
    /\ tenants = {}
    /\ roles = [k \in RoleKeys |-> 0]
    /\ permissionTable = {}
    /\ accounts = [u \in Users |-> IF u \in Superusers THEN "principal" ELSE NoAccount]
    /\ roleIsSystem = [k \in RoleKeys |-> 0]
    /\ roleIsActive = [k \in RoleKeys |-> TRUE]
    /\ CampusSetUp

\* A principal registers the school.
RegisterSchool ==
    /\ Idle
    /\ tenants = {}
    /\ tenants' = Tenants
    /\ UNCHANGED <<userRoles, rolePermissions, permissionActive, now, last, tx,
                   roles, permissionTable, accounts, roleIsSystem, roleIsActive, campus>>

\* Role.save() of a new row: full_clean() runs validate_unique(), which
\* rejects a second row with the same name and tenant; the check (like the
\* database's unique index) is skipped when the tenant is NULL.
Role_save(table, name, tenant) ==
    IF tenant # NULL /\ table[<<name, tenant>>] >= 1
    THEN [roles |-> table, raised |-> "ValidationError"]
    ELSE [roles |-> [table EXCEPT ![<<name, tenant>>] = @ + 1], raised |-> "none"]

\* An administrator adds a Role row, for a registered school or without a
\* tenant.
AdminCreateRole ==
    /\ Idle
    /\ \E name \in AdminRoleNames, tenant \in tenants \cup {NULL} :
        LET r == Role_save(roles, name, tenant)
        IN /\ roles[<<name, tenant>>] < MaxSameRole
           /\ roles' = r.roles
           /\ last' = Call("role_save", NULL, name, NULL, tenant, NULL, 0, "ok",
                           r.raised = "none", r.raised, <<>>)
    /\ UNCHANGED <<userRoles, rolePermissions, permissionActive, now, tx,
                   tenants, permissionTable, accounts, roleIsSystem, roleIsActive, campus>>

\* Role.is_system_role after the seeding's update_or_create calls: the
\* defaults set it on the superadmin role (create_system_roles) and clear it
\* on every role of the tenants seeded (seed_for_tenant).
SeededSystemFlags(flags, seeded_tenants, system) ==
    [k \in RoleKeys |->
        IF system /\ k = <<"superadmin", NULL>> THEN 1
        ELSE IF k[1] \in Roles /\ k[2] \in seeded_tenants THEN 0
        ELSE flags[k]]

\* manage.py seed_rbac [--force]: handle() calls seed_all.
SeedAll ==
    /\ Idle
    /\ \E force \in BOOLEAN :
        LET r == seed_all(roles, rolePermissions, permissionTable, permissionActive,
                          tenants, Permissions, force)
        IN /\ roles' = r.roles
           /\ rolePermissions' = r.links
           /\ permissionTable' = r.ptable
           /\ permissionActive' = r.active
           /\ roleIsSystem' = IF r.raised = "none"
                              THEN SeededSystemFlags(roleIsSystem, tenants, TRUE)
                              ELSE roleIsSystem
           /\ last' = Call("seed_all", NULL, NULL, NULL, NULL, NULL, 0, "ok",
                           r.raised = "none", r.raised, <<>>)
    /\ UNCHANGED <<userRoles, now, tx, tenants, accounts, roleIsActive, campus>>

\* manage.py seed_rbac --tenant-id N [--force]: handle() calls
\* seed_for_tenant for the tenant, outside any transaction.
SeedTenant ==
    /\ Idle
    /\ \E tenant \in tenants, force \in BOOLEAN :
        LET r == seed_for_tenant(roles, rolePermissions, permissionTable,
                                 permissionActive, Permissions, tenant, force)
        IN /\ roles' = r.roles
           /\ rolePermissions' = r.links
           /\ roleIsSystem' = SeededSystemFlags(roleIsSystem, {tenant}, FALSE)
           /\ last' = Call("seed_for_tenant", NULL, NULL, NULL, tenant, NULL, 0, "ok",
                           r.raised = "none", r.raised, <<>>)
    /\ UNCHANGED <<userRoles, permissionActive, now, tx, tenants, permissionTable,
                   accounts, roleIsActive, campus>>

\* A user is created with a user_type: save() inserts the row and post_save
\* calls assign_default_role with created=True.
CreateUser ==
    /\ Idle
    /\ \E user \in SignupUsers, user_type \in UserTypes, outcome \in LogOutcomes :
        LET r == assign_default_role(userRoles, roles, now, user, TRUE, user_type,
                                     outcome)
        IN /\ accounts[user] = NoAccount
           /\ Len(r.rows) <= MaxRows
           /\ accounts' = [accounts EXCEPT ![user] = user_type]
           /\ userRoles' = r.rows
           /\ last' = Call("create_user", user, user_type, NULL, NULL, NULL, 0,
                           outcome, r.raised = "none", r.raised, r.log)
    /\ UNCHANGED <<rolePermissions, permissionActive, now, tx, tenants, roles,
                   permissionTable, roleIsSystem, roleIsActive, campus>>

\* A stored user is saved again: post_save with created=False.
SaveUser ==
    /\ Idle
    /\ \E user \in SignupUsers, outcome \in LogOutcomes :
        LET r == assign_default_role(userRoles, roles, now, user, FALSE,
                                     accounts[user], outcome)
        IN /\ accounts[user] # NoAccount
           /\ userRoles' = r.rows
           /\ last' = Call("save_user", user, accounts[user], NULL, NULL, NULL, 0,
                           outcome, r.raised = "none", r.raised, r.log)
    /\ UNCHANGED <<rolePermissions, permissionActive, now, tx, site>>

\* The roles whose is_system_role an administrator changes.
AdminFlagKeys == {"manager"} \X Tenants

\* An administrator changes is_system_role of a stored role on RoleAdmin's
\* change form.
AdminSetSystemRole ==
    /\ Idle
    /\ \E k \in AdminFlagKeys, value \in BOOLEAN :
        /\ roles[k] >= 1
        /\ IF value THEN roleIsSystem[k] < roles[k] ELSE roleIsSystem[k] >= 1
        /\ roleIsSystem' = [roleIsSystem EXCEPT ![k] = IF value THEN @ + 1 ELSE @ - 1]
        /\ last' = Call("role_change", NULL, k[1], NULL, k[2], NULL, 0, "ok",
                        value, "none", <<>>)
    /\ UNCHANGED <<userRoles, rolePermissions, permissionActive, now, tx,
                   tenants, roles, permissionTable, accounts, roleIsActive, campus>>

\* The rows of a table that do not refer to the role of that name.
WithoutRole(rows, name) ==
    LET Keeps(row) == row.role # name IN SelectSeq(rows, Keeps)

\* An administrator deletes a stored role on RoleAdmin (delete view or the
\* delete_selected action): RoleAdmin and Role define no protection, and
\* the deletion cascades to the RolePermission and UserRole rows of the
\* role.  `system` tells whether the row deleted has is_system_role set,
\* `referenced` whether it is the row of that name that assignments refer
\* to (the users' roles are the ones stored without a tenant).
AdminDeleteRole ==
    /\ Idle
    /\ \E k \in RoleKeys, system \in BOOLEAN, referenced \in BOOLEAN :
        /\ roles[k] >= 1
        /\ IF system THEN roleIsSystem[k] >= 1 ELSE roles[k] - roleIsSystem[k] >= 1
        /\ referenced => k[2] = NULL
        /\ (k[2] = NULL /\ roles[k] = 1) => referenced
        /\ roles' = [roles EXCEPT ![k] = @ - 1]
        /\ roleIsSystem' = [roleIsSystem EXCEPT ![k] = IF system THEN @ - 1 ELSE @]
        /\ userRoles' = IF referenced THEN WithoutRole(userRoles, k[1]) ELSE userRoles
        /\ rolePermissions' = IF k[2] = NULL THEN rolePermissions
                              ELSE {l \in rolePermissions : l[1] # k[1]}
        /\ last' = Call("role_delete", NULL, k[1], NULL, k[2], NULL, 0, "ok",
                        system, "none", <<>>)
    /\ UNCHANGED <<permissionActive, now, tx, tenants, permissionTable, accounts,
                   roleIsActive, campus>>

\* An administrator deletes a school on SchoolTenantAdmin: Role.tenant is
\* on_delete=CASCADE, so every role of the school goes with it, and with
\* the roles their RolePermission rows.
AdminDeleteSchool ==
    /\ Idle
    /\ \E tenant \in tenants :
        /\ tenants' = tenants \ {tenant}
        /\ roles' = [k \in RoleKeys |-> IF k[2] = tenant THEN 0 ELSE roles[k]]
        /\ roleIsSystem' = [k \in RoleKeys |->
                               IF k[2] = tenant THEN 0 ELSE roleIsSystem[k]]
        /\ rolePermissions' = {}
        /\ last' = Call("school_delete", NULL, NULL, NULL, tenant, NULL, 0, "ok",
                        TRUE, "none", <<>>)
    /\ UNCHANGED <<userRoles, permissionActive, now, tx, permissionTable, accounts,
                   roleIsActive, campus>>

NextSite ==
    \/ RegisterSchool
    \/ AdminCreateRole
    \/ AdminSetSystemRole
    \/ AdminDeleteRole
    \/ AdminDeleteSchool
    \/ SeedAll
    \/ SeedTenant
    \/ CreateUser
    \/ SaveUser
    \/ Return

SpecSite == InitSite /\ [][NextSite]_vars

\* --------------------------------------- concurrent assign_role transactions
\* Requests are served concurrently, each assign_role in its own database
\* transaction (@transaction.atomic) and nothing else serialising them: the
\* code takes no lock of its own (no select_for_update).  The transaction is
\* followed statement by statement under READ COMMITTED, the isolation level
\* Django runs PostgreSQL, MySQL and Oracle with: every statement sees the rows
\* committed when it starts, an UPDATE locks the rows it changes until the
\* transaction ends and, having waited for a lock, looks at the locked row again
\* but not at rows committed meanwhile; an INSERT waits for an uncommitted row
\* with the same unique key.  `userRoles` is the committed table, which is all
\* that a permission check running beside the transactions reads.  The serial
\* executions (the only ones of a database that serialises writers) are among
\* the behaviours.
TxRoles == {"manager", "teacher"}
TxActors == {NULL, "u1"}

LockedByOthers(p) == UNION {tx[q].locked : q \in Procs \ {p}}

PendingInserts == {q \in Procs : tx[q].pc = "inserted"}

TxCall(t, row, outcome, raised, audit) ==
    Call("assign_role", t.user, t.role, NULL, t.branch, t.by, row, outcome,
         raised = "none", raised, audit)

InitTx ==
    /\ userRoles = <<>>
    /\ rolePermissions = SeedRolePermissions
    /\ permissionActive = [c \in Perms |-> TRUE]
    /\ now = 0
    /\ last = NoCall
    /\ tx = [p \in Procs |-> NoTx]
    /\ SiteSetUp

\* assign_role is entered: the atomic block opens and the hierarchy check
\* reads the committed rows; PermissionDenied leaves the block at once.
TxBegin(p) ==
    /\ tx[p].pc = "idle"
    /\ \E user \in TargetUsers, role \in TxRoles, branch \in AssignBranches,
       assigned_by \in TxActors :
        LET t == [NoTx EXCEPT !.pc = "begun", !.user = user, !.role = role,
                              !.branch = branch, !.by = assigned_by]
        IN IF assigned_by # NULL /\ ~_can_manage_role(userRoles, now, assigned_by, role)
           THEN /\ last' = TxCall(t, 0, "ok", "PermissionDenied", <<>>)
                /\ UNCHANGED tx
           ELSE /\ tx' = [tx EXCEPT ![p] = t]
                /\ UNCHANGED last
    /\ UNCHANGED <<site, userRoles, rolePermissions, permissionActive, now>>

\* The UPDATE starts: its targets are the committed active rows of the key.
\* It locks them, or waits when another transaction holds one of them.
TxUpdate(p) ==
    /\ tx[p].pc = "begun"
    /\ LET targets == ActiveKeyRows(userRoles, tx[p].user, tx[p].role, tx[p].branch)
       IN IF targets \cap LockedByOthers(p) # {}
          THEN tx' = [tx EXCEPT ![p].pc = "waiting", ![p].targets = targets]
          ELSE tx' = [tx EXCEPT ![p].pc = "updated", ![p].targets = targets,
                                ![p].locked = targets]
    /\ UNCHANGED <<site, userRoles, rolePermissions, permissionActive, now, last>>

\* The locks are released: the UPDATE looks at its targets again and changes
\* those that are still active; rows inserted meanwhile are not among them.
TxUpdateResume(p) ==
    /\ tx[p].pc = "waiting"
    /\ tx[p].targets \cap LockedByOthers(p) = {}
    /\ tx' = [tx EXCEPT ![p].pc = "updated",
                        ![p].locked = {i \in tx[p].targets : userRoles[i].is_active}]
    /\ UNCHANGED <<site, userRoles, rolePermissions, permissionActive, now, last>>

\* UserRole.objects.create(): the INSERT.  A committed row with the same
\* non-NULL key (a row this transaction set inactive included) is an
\* IntegrityError, which leaves the atomic block and rolls it back; an
\* uncommitted one makes the INSERT wait.
TxInsert(p) ==
    /\ tx[p].pc = "updated"
    /\ IF ViolatesUniqueTogether(userRoles, tx[p].user, tx[p].role, tx[p].branch)
       THEN /\ tx' = [tx EXCEPT ![p] = NoTx]
            /\ last' = TxCall(tx[p], 0, "ok", "IntegrityError", <<>>)
       ELSE /\ \A q \in PendingInserts :
                    tx[p].branch = NULL
                    \/ <<tx[q].user, tx[q].role, tx[q].branch>>
                        # <<tx[p].user, tx[p].role, tx[p].branch>>
            /\ Len(userRoles) + Cardinality(PendingInserts) < MaxTxRows
            /\ tx' = [tx EXCEPT ![p].pc = "inserted"]
            /\ UNCHANGED last
    /\ UNCHANGED <<site, userRoles, rolePermissions, permissionActive, now>>

\* _log_action and the end of the atomic block: the commit publishes the
\* deactivations and the new row together, or the transaction that the audit
\* write marked is rolled back.
TxCommit(p) ==
    /\ tx[p].pc = "inserted"
    /\ \E outcome \in LogOutcomes :
        LET log == _log_action("grant", tx[p].user, tx[p].role, tx[p].by, outcome)
            updated == [i \in DOMAIN userRoles |->
                          IF i \in tx[p].locked
                          THEN [userRoles[i] EXCEPT !.is_active = FALSE]
                          ELSE userRoles[i]]
            created == Append(updated,
                              UserRoleRow(tx[p].user, tx[p].role, tx[p].branch,
                                          now, tx[p].valid_until, TRUE))
        IN /\ userRoles' = IF log.db_error THEN userRoles ELSE created
           /\ last' = TxCall(tx[p], Len(created), outcome, "none",
                             IF log.db_error THEN <<>> ELSE log.rows)
    /\ tx' = [tx EXCEPT ![p] = NoTx]
    /\ UNCHANGED <<site, rolePermissions, permissionActive, now>>

\* A permission check beside the transactions: it reads the committed rows.
ConcurrentCheck ==
    /\ \E user \in TargetUsers, code \in ToggledPerms :
        LET r == user_has_permission(userRoles, rolePermissions, permissionActive,
                                     now, user, code, NULL, "ok")
        IN last' = Call("user_has_permission", user, NULL, code, NULL, NULL,
                        0, "ok", r.ret, "none", r.log.rows)
    /\ UNCHANGED <<site, userRoles, rolePermissions, permissionActive, now, tx>>

NextTx ==
    \/ \E p \in Procs : TxBegin(p)
    \/ \E p \in Procs : TxUpdate(p)
    \/ \E p \in Procs : TxUpdateResume(p)
    \/ \E p \in Procs : TxInsert(p)
    \/ \E p \in Procs : TxCommit(p)
    \/ ConcurrentCheck

SpecTx == InitTx /\ [][NextTx]_vars

\* ================================================================ claims
\* The formulas that quantify over the arguments of a call are stated for the
\* states between calls (Idle): every state of the tables is reached there,
\* since a call changes the tables in the step that sets `last` and Return
\* leaves them as they are.

\* The currently valid rows of a user by UserRole.is_valid().
ValidRowsOf(user) ==
    {i \in DOMAIN userRoles : userRoles[i].user = user /\ is_valid(userRoles[i], now)}

\* ----------------------------------------------------------------------- C1
\* C1 (as claimed): when assign_role is called a second time for a key that
\* the first call gave its one, active, row -- for a NULL and for a non-NULL
\* branch alike -- the call succeeds and leaves exactly two rows of the key,
\* exactly one of them active, the earlier row kept and deactivated.
C1_SecondAssignKeepsHistory ==
    [][\A user \in TargetUsers, role \in Roles, branch \in AssignBranches :
         ( /\ Idle
           /\ last'.op = "assign_role"
           /\ last'.user = user /\ last'.role = role /\ last'.branch = branch
           /\ last'.by = NULL /\ last'.outcome = "ok"
           /\ Cardinality(KeyRows(userRoles, user, role, branch)) = 1
           /\ ActiveKeyRows(userRoles, user, role, branch)
                 = KeyRows(userRoles, user, role, branch) )
         => ( /\ last'.raised = "none"
              /\ Cardinality(KeyRows(userRoles', user, role, branch)) = 2
              /\ Cardinality(ActiveKeyRows(userRoles', user, role, branch)) = 1
              /\ \A i \in KeyRows(userRoles, user, role, branch) :
                    /\ i \in KeyRows(userRoles', user, role, branch)
                    /\ ~userRoles'[i].is_active )
      ]_vars

\* The NULL-branch half of C1, which the code does satisfy.
C1_NullBranchOnly ==
    [][\A user \in TargetUsers, role \in Roles :
         ( /\ Idle
           /\ last'.op = "assign_role"
           /\ last'.user = user /\ last'.role = role /\ last'.branch = NULL
           /\ last'.by = NULL /\ last'.outcome = "ok"
           /\ Cardinality(KeyRows(userRoles, user, role, NULL)) = 1
           /\ ActiveKeyRows(userRoles, user, role, NULL)
                 = KeyRows(userRoles, user, role, NULL) )
         => ( /\ last'.raised = "none"
              /\ Cardinality(KeyRows(userRoles', user, role, NULL)) = 2
              /\ Cardinality(ActiveKeyRows(userRoles', user, role, NULL)) = 1
              /\ \A i \in KeyRows(userRoles, user, role, NULL) :
                    /\ i \in KeyRows(userRoles', user, role, NULL)
                    /\ ~userRoles'[i].is_active )
      ]_vars

\* ----------------------------------------------------------------------- C2
\* C2 (as claimed): under any interleaving of concurrent assign_role calls and
\* permission checks, no committed state holds two active rows of one
\* (user, role, branch) key, and a key that has an active row is never seen
\* without one while an assignment replaces it.
C2_OneActiveRowPerKey ==
    [][\A user \in TargetUsers, role \in TxRoles, branch \in AssignBranches :
         /\ Cardinality(ActiveKeyRows(userRoles', user, role, branch)) <= 1
         /\ ( ActiveKeyRows(userRoles, user, role, branch) # {}
              => ActiveKeyRows(userRoles', user, role, branch) # {} )
      ]_vars

\* The half of C2 about readers, which the transaction does provide: the
\* committed table never loses the last active row of a key to an assignment.
C2_NoZeroWindow ==
    [][\A user \in TargetUsers, role \in TxRoles, branch \in AssignBranches :
         ActiveKeyRows(userRoles, user, role, branch) # {}
         => ActiveKeyRows(userRoles', user, role, branch) # {}
      ]_vars

\* Two active rows are possible only where the unique constraint does not
\* bind: a key with a branch has at most one committed row at all.
C2_BranchKeysSingle ==
    \A user \in TargetUsers, role \in TxRoles, branch \in AssignBranches \ {NULL} :
        Cardinality(KeyRows(userRoles, user, role, branch)) <= 1

\* ----------------------------------------------------------------------- C3
\* The link of a role to a permission code that is switched on.
Grants(role, code) == <<role, code>> \in rolePermissions /\ permissionActive[code]

\* m may act on target_role: the system, a superuser, or a user whose lowest
\* level_rank over the currently valid assignments is below the target's.
Permitted(m, target_role) ==
    \/ m = NULL
    \/ m \in Superusers
    \/ \E i \in ValidRowsOf(m) :
          /\ \A j \in ValidRowsOf(m) :
                level_rank(userRoles[i].role) <= level_rank(userRoles[j].role)
          /\ level_rank(userRoles[i].role) < level_rank(target_role)

\* C3: assign_role(assigned_by=m) and revoke_role(revoked_by=m) raise
\* PermissionDenied exactly when m is neither the system nor a superuser and
\* m's best (lowest) rank over its currently valid roles is not strictly
\* below the target role's rank (equal, above, or no valid role at all).
C3_HierarchyEnforced ==
    Idle => \A m \in Users \cup {NULL}, outcome \in LogOutcomes :
        /\ \A user \in TargetUsers, role \in Roles, branch \in AssignBranches,
              valid_until \in Expiries :
              (assign_role(userRoles, now, user, role, branch, m, valid_until,
                           outcome).raised = "PermissionDenied")
                 <=> ~Permitted(m, role)
        /\ \A i \in DOMAIN userRoles :
              (revoke_role(userRoles, now, i, m, outcome).raised = "PermissionDenied")
                 <=> ~Permitted(m, userRoles[i].role)

\* A manager (rank 2) was refused the principal role (rank 1) and is allowed
\* to grant the teacher role (rank 4).
C3_Witness ==
    /\ last.op = "assign_role" /\ last.by = "u1" /\ last.role = "principal"
    /\ last.raised = "PermissionDenied"
    /\ ValidRowsOf("u1") # {}
    /\ BestRank(userRoles, ValidRowsOf("u1")) = 2
    /\ assign_role(userRoles, now, "u1", "teacher", NULL, "u1", NoExpiry,
                   "ok").raised # "PermissionDenied"

\* ----------------------------------------------------------------------- C4
\* C4: for an authenticated user who is no superuser, user_has_permission
\* (user, code) is True exactly when a currently valid assignment of the user
\* points to a role linked to the code's permission and that permission is
\* active; with the permission switched off every check for the code, in any
\* branch, is False.
C4_PermissionExistence ==
    /\ Idle => \A user \in Users \ Superusers, code \in Perms, outcome \in LogOutcomes :
          /\ user_has_permission(userRoles, rolePermissions, permissionActive,
                                 now, user, code, NULL, outcome).ret
                <=> \E i \in ValidRowsOf(user) : Grants(userRoles[i].role, code)
          /\ ~permissionActive[code] =>
                \A branch \in CheckBranches :
                    ~user_has_permission(userRoles, rolePermissions,
                                         permissionActive, now, user, code,
                                         branch, outcome).ret
    /\ (last.op = "user_has_permission" /\ last.user \in Users \ Superusers
            /\ last.branch = NULL)
          => (last.ret <=> \E i \in ValidRowsOf(last.user) :
                              Grants(userRoles[i].role, last.code))

\* A check was refused only because the permission is switched off: the user
\* holds a valid assignment whose role is still linked to the code.
C4_Witness ==
    /\ last.op = "user_has_permission" /\ last.user = "u1" /\ ~last.ret
    /\ ~permissionActive[last.code]
    /\ \E i \in ValidRowsOf("u1") : <<userRoles[i].role, last.code>> \in rolePermissions

\* ----------------------------------------------------------------------- C5
\* The table without the rows scoped to a branch other than b.
WithoutOtherBranches(rows, b) ==
    SelectSeq(rows, LAMBDA r : r.branch = b \/ r.branch = NULL)

\* C5: a check scoped to a branch b is decided by the valid assignments of
\* branch b and the tenant-wide (NULL) ones alone -- assignments of another
\* branch never contribute -- and a valid tenant-wide assignment that grants
\* the code makes the check True for every branch and for no branch.
C5_BranchScoping ==
    /\ Idle => \A user \in Users \ Superusers, code \in Perms, b \in Branches :
          /\ user_has_permission(userRoles, rolePermissions, permissionActive,
                                 now, user, code, b, "ok").ret
                <=> \E i \in ValidRowsOf(user) :
                       /\ userRoles[i].branch \in {b, NULL}
                       /\ Grants(userRoles[i].role, code)
          /\ user_has_permission(userRoles, rolePermissions, permissionActive,
                                 now, user, code, b, "ok").ret
                = user_has_permission(WithoutOtherBranches(userRoles, b),
                                      rolePermissions, permissionActive,
                                      now, user, code, b, "ok").ret
    /\ Idle => \A user \in Users \ Superusers, code \in Perms :
          (\E i \in ValidRowsOf(user) :
               userRoles[i].branch = NULL /\ Grants(userRoles[i].role, code))
          => \A branch \in CheckBranches :
                 user_has_permission(userRoles, rolePermissions, permissionActive,
                                     now, user, code, branch, "ok").ret
    /\ (last.op = "user_has_permission" /\ last.user \in Users \ Superusers
            /\ last.branch # NULL)
          => (last.ret <=> \E i \in ValidRowsOf(last.user) :
                              /\ userRoles[i].branch \in {last.branch, NULL}
                              /\ Grants(userRoles[i].role, last.code))

\* A check scoped to B2 was refused although the user holds a valid
\* assignment at B1 whose role grants the code.
C5_Witness ==
    /\ last.op = "user_has_permission" /\ last.branch = "B2" /\ ~last.ret
    /\ \E i \in ValidRowsOf(last.user) :
          userRoles[i].branch = "B1" /\ Grants(userRoles[i].role, last.code)

\* ----------------------------------------------------------------------- C6
\* C6: for a superuser user_has_permission is True for every code and every
\* branch, whatever assignments, links and Permission.is_active values exist.
C6_SuperuserBypass ==
    /\ Idle => \A user \in Superusers, code \in Perms, branch \in CheckBranches,
          outcome \in LogOutcomes :
          user_has_permission(userRoles, rolePermissions, permissionActive,
                              now, user, code, branch, outcome).ret
    /\ (last.op \in {"user_has_permission", "require_permission"}
            /\ last.user \in Superusers)
          => (last.ret /\ last.raised = "none")

\* A superuser holding no assignment was granted a code that is switched off.
C6_Witness ==
    /\ last.op = "user_has_permission" /\ last.user \in Superusers /\ last.ret
    /\ ~permissionActive[last.code]
    /\ ValidRowsOf(last.user) = {}
    /\ userRoles # <<>>

\* ----------------------------------------------------------------------- C8
\* C8 (as claimed): a call whose audit-log write fails returns and raises
\* what the same call does when the write succeeds, and leaves the UserRole
\* table as that call leaves it; the failure never undoes the role change.
C8_AuditFailureIsolated ==
    [][(Idle /\ last'.outcome = "db_error") =>
         /\ last'.op = "user_has_permission" =>
               /\ last'.ret = user_has_permission(userRoles, rolePermissions,
                                  permissionActive, now, last'.user, last'.code,
                                  last'.branch, "ok").ret
               /\ last'.raised = "none"
               /\ userRoles' = userRoles
         /\ last'.op = "assign_role" =>
               \E valid_until \in Expiries :
                  LET ok == assign_role(userRoles, now, last'.user, last'.role,
                                        last'.branch, last'.by, valid_until, "ok")
                  IN /\ last'.raised = ok.raised
                     /\ last'.row = ok.ret
                     /\ userRoles' = ok.rows
         /\ last'.op = "revoke_role" =>
               LET ok == revoke_role(userRoles, now, last'.row, last'.by, "ok")
               IN /\ last'.raised = ok.raised
                  /\ userRoles' = ok.rows
      ]_vars

\* The part of C8 the code satisfies: user_has_permission and revoke_role,
\* which run outside any transaction.
C8_ChecksAndRevokeIsolated ==
    [][(Idle /\ last'.outcome = "db_error") =>
         /\ last'.op = "user_has_permission" =>
               /\ last'.ret = user_has_permission(userRoles, rolePermissions,
                                  permissionActive, now, last'.user, last'.code,
                                  last'.branch, "ok").ret
               /\ last'.raised = "none"
               /\ userRoles' = userRoles
         /\ last'.op = "revoke_role" =>
               LET ok == revoke_role(userRoles, now, last'.row, last'.by, "ok")
               IN /\ last'.raised = ok.raised
                  /\ userRoles' = ok.rows
      ]_vars

\* ----------------------------------------------------------------------- C9
\* C9 (as claimed): every call of user_has_permission, whatever its outcome
\* and whoever the user (missing and unauthenticated users included), adds
\* exactly one PermissionAuditLog row recording the decision, and every
\* successful assign_role / revoke_role adds exactly one grant / revoke row
\* (the audit table being available).
C9_OneAuditRowPerCall ==
    /\ (last.op = "user_has_permission" /\ last.outcome = "ok") =>
          /\ Len(last.audit) = 1
          /\ last.audit[1].action = "check"
          /\ last.audit[1].permission_code = last.code
          /\ last.audit[1].granted = last.ret
    /\ (last.op = "assign_role" /\ last.raised = "none" /\ last.outcome = "ok") =>
          /\ Len(last.audit) = 1
          /\ last.audit[1].action = "grant"
    /\ (last.op = "revoke_role" /\ last.raised = "none" /\ last.outcome = "ok") =>
          /\ Len(last.audit) = 1
          /\ last.audit[1].action = "revoke"

\* C9 for the callers that are stored users, which the code satisfies.
C9_StoredUsersOnly ==
    /\ (last.op = "user_has_permission" /\ last.outcome = "ok"
            /\ last.user \in Users) =>
          /\ Len(last.audit) = 1
          /\ last.audit[1].action = "check"
          /\ last.audit[1].permission_code = last.code
          /\ last.audit[1].granted = last.ret
          /\ last.audit[1].user = last.user
    /\ (last.op = "assign_role" /\ last.raised = "none" /\ last.outcome = "ok") =>
          /\ Len(last.audit) = 1
          /\ last.audit[1].action = "grant"
    /\ (last.op = "revoke_role" /\ last.raised = "none" /\ last.outcome = "ok") =>
          /\ Len(last.audit) = 1
          /\ last.audit[1].action = "revoke"

\* ---------------------------------------------------------------------- C10
\* C10 (as claimed): require_permission returns normally when the check is
\* True and raises PermissionDenied -- no other error -- when it is False, a
\* missing or unauthenticated user included.
C10_DenyRaisesPermissionDenied ==
    last.op = "require_permission" =>
        /\ last.ret => last.raised = "none"
        /\ ~last.ret => last.raised = "PermissionDenied"

\* C10 for the callers that are stored users, which the code satisfies.
C10_StoredUsersOnly ==
    (last.op = "require_permission" /\ last.user \in Users) =>
        /\ last.ret => last.raised = "none"
        /\ ~last.ret => last.raised = "PermissionDenied"

\* ----------------------------------------------------------------------- C7
\* What C7 says of the value v that is_valid() gives for a row at instant t.
TemporalValidity(row, t, v) ==
    /\ ~row.is_active => ~v
    /\ t < row.valid_from => ~v
    /\ (row.valid_until # NoExpiry /\ row.valid_until < t) => ~v
    /\ (row.is_active /\ t >= row.valid_from /\ row.valid_until # NoExpiry
           /\ t <= row.valid_until) => v
    /\ (row.is_active /\ t >= row.valid_from /\ row.valid_until = NoExpiry) => v

\* C7: is_valid() of a row is True exactly when the row is active, now is at
\* or after valid_from and valid_until is null or not before now: a window
\* that ended in the past makes the row invalid, one that ends now or later
\* and a null valid_until make an active, started row valid.
C7_TemporalValidity ==
    /\ \A i \in DOMAIN userRoles :
          TemporalValidity(userRoles[i], now, is_valid(userRoles[i], now))
    /\ last.op = "is_valid" =>
          TemporalValidity(userRoles[last.row], now, last.ret)

\* is_valid() was evaluated on the last instant of a row's window and gave
\* True.
C7_Witness ==
    /\ last.op = "is_valid" /\ last.ret
    /\ userRoles[last.row].valid_until = now

\* ---------------------------------------------------------------------- C11
\* C11 (as claimed): get_user_permissions(user, branch) returns the whole
\* registry for a superuser and, for any other stored user, the de-duplicated
\* active codes of the user's currently valid roles: no code occurs twice in
\* the list, and a code is in it exactly when user_has_permission is True.
C11_EffectivePermissionSet ==
    Idle =>
    \A user \in Users, branch \in CheckBranches :
        LET codes == get_user_permissions(userRoles, rolePermissions,
                                          permissionActive, now, user, branch)
        IN /\ is_superuser(user) => DOMAIN codes = Perms
           /\ \A c \in DOMAIN codes : codes[c] = 1
           /\ \A c \in Perms :
                c \in DOMAIN codes
                <=> user_has_permission(userRoles, rolePermissions, permissionActive,
                                        now, user, c, branch, "ok").ret

\* The part of C11 that the code does satisfy: the codes that occur in the
\* list are exactly the codes for which the check is True.
C11_SameCodesAsCheck ==
    Idle =>
    \A user \in Users, branch \in CheckBranches :
        LET codes == get_user_permissions(userRoles, rolePermissions,
                                          permissionActive, now, user, branch)
        IN /\ is_superuser(user) => DOMAIN codes = Perms
           /\ \A c \in Perms :
                c \in DOMAIN codes
                <=> user_has_permission(userRoles, rolePermissions, permissionActive,
                                        now, user, c, branch, "ok").ret

\* ---------------------------------------------------------------------- C12
\* The table without its row i.
WithoutRow(rows, i) ==
    SubSeq(rows, 1, i - 1) \o SubSeq(rows, i + 1, Len(rows))

\* C12: a revoke_role that is not refused leaves its row in storage with
\* is_active=False, and the row grants nothing from then on: a check that
\* the other rows alone do not make True is False after the revocation, and
\* in every state the checks are what they would be without the inactive rows.
C12_RevokedRowGrantsNothing ==
    [][ /\ ( Idle /\ last'.op = "revoke_role" /\ last'.raised = "none" )
           => /\ Len(userRoles') = Len(userRoles)
              /\ userRoles'[last'.row]
                    = [userRoles[last'.row] EXCEPT !.is_active = FALSE]
              /\ \A code \in Perms, branch \in CheckBranches :
                    ~user_has_permission(WithoutRow(userRoles, last'.row),
                                         rolePermissions, permissionActive, now,
                                         last'.user, code, branch, "ok").ret
                    => ~user_has_permission(userRoles', rolePermissions,
                                            permissionActive, now,
                                            last'.user, code, branch, "ok").ret
        /\ Idle' =>
             \A user \in TargetUsers, code \in Perms, branch \in CheckBranches :
                user_has_permission(userRoles', rolePermissions', permissionActive',
                                    now', user, code, branch, "ok").ret
                = user_has_permission(SelectSeq(userRoles', LAMBDA r : r.is_active),
                                      rolePermissions', permissionActive',
                                      now', user, code, branch, "ok").ret
      ]_vars

\* The manager assignment of u1 at B1 was just revoked: the row is stored
\* inactive and student.create, which the manager role grants, is refused
\* to u1 at B1.
C12_Witness ==
    /\ last.op = "revoke_role" /\ last.raised = "none"
    /\ last.user = "u1" /\ last.role = "manager" /\ last.branch = "B1"
    /\ ~userRoles[last.row].is_active
    /\ Grants("manager", "student.create")
    /\ ~user_has_permission(userRoles, rolePermissions, permissionActive, now,
                            "u1", "student.create", "B1", "ok").ret

IndividualChecks ==
    [j \in 1..Len(last.list) |->
        user_has_permission(userRoles, rolePermissions, permissionActive, now,
                            last.user, last.list[j], last.branch, "ok")]

\* The number of checks a loop makes that stops at the first result v.
ChecksMade(results, v) ==
    IF \E j \in DOMAIN results : results[j].ret = v
    THEN CHOOSE j \in DOMAIN results :
            /\ results[j].ret = v
            /\ \A k \in 1..(j - 1) : results[k].ret # v
    ELSE Len(results)

C15_DeniedHasNoEffect ==
    [][ ( /\ Idle
          /\ last'.op \in {"assign_role", "revoke_role"}
          /\ ~Permitted(last'.by, last'.role) )
        => /\ last'.raised = "PermissionDenied"
           /\ ~last'.ret
           /\ userRoles' = userRoles
           /\ last'.audit = <<>>
      ]_vars

\* u1, whose best valid role is manager, was refused the revocation of an
\* active manager assignment (equal rank), which is still active.
C15_Witness ==
    /\ last.op = "revoke_role" /\ last.by = "u1"
    /\ last.raised = "PermissionDenied"
    /\ last.role = "manager"
    /\ userRoles[last.row].is_active
    /\ \A i \in ValidRowsOf("u1") : userRoles[i].role # "principal"

\* ---------------------------------------------------------------------- C16
\* The permission check of the decorated view of the request in `last`, as
\* the service decides it in this state.
ViewCheckPassed ==
    IF last.op = "view.require_permission"
    THEN user_has_permission(userRoles, rolePermissions, permissionActive, now,
                             last.user, last.code, NULL, "ok").ret
    ELSE \E j \in 1..Len(last.list) :
            user_has_permission(userRoles, rolePermissions, permissionActive, now,
                                last.user, last.list[j], NULL, "ok").ret

\* C16 (as claimed): a view wrapped by require_permission or
\* require_any_permission runs its handler only after the check for the
\* request's user has passed, and a request whose check fails is rejected
\* with an authorization error (PermissionDenied) before the handler runs.
C16_RejectedBeforeHandler ==
    last.op \in {"view.require_permission", "view.require_any_permission"}
    => /\ last.ret => ViewCheckPassed
       /\ ~ViewCheckPassed => (~last.ret /\ last.raised = "PermissionDenied")

\* The ordering half of C16, which holds for every request user: the handler
\* runs exactly when the check has passed, a failed check ends the request
\* with an exception, and that exception is PermissionDenied for a logged-in
\* user and for every user of require_any_permission.
C16_HandlerOnlyAfterPass ==
    last.op \in {"view.require_permission", "view.require_any_permission"}
    => /\ last.ret <=> ViewCheckPassed
       /\ ~ViewCheckPassed => last.raised # "none"
       /\ ( ~ViewCheckPassed
            /\ (last.user \in Users \/ last.op = "view.require_any_permission") )
          => last.raised = "PermissionDenied"

\* ---------------------------------------------------------------------- C17
\* The rows the query in `last` looks at before the validity filter: those of
\* its user or role, restricted by its branch filter.
QueryScope ==
    {i \in DOMAIN userRoles :
        /\ last.user # NULL => userRoles[i].user = last.user
        /\ last.role # NULL => userRoles[i].role = last.role
        /\ last.branch # NULL =>
              IF last.op = "selector.get_users_by_role"
              THEN userRoles[i].branch = last.branch
              ELSE userRoles[i].branch \in {last.branch, NULL}}

ValidRowQueries ==
    {"_get_valid_user_roles", "get_user_roles", "selector.get_user_roles",
     "selector.get_users_by_role", "selector.get_role_summary_for_branch"}

\* C17: the rows that the service (_get_valid_user_roles, get_user_roles) and
\* the selectors (get_user_roles, get_users_by_role,
\* get_role_summary_for_branch) select as currently valid at `now` are exactly
\* the rows of the query's scope for which is_valid() holds at `now`, that
\* is: is_active and valid_from <= now and (valid_until is NULL or
\* valid_until >= now).
C17_QueriesAgreeWithIsValid ==
    (last.op \in ValidRowQueries /\ last.only_valid)
    => /\ last.selected = {i \in QueryScope : is_valid(userRoles[i], now)}
       /\ last.selected
            = {i \in QueryScope :
                  /\ userRoles[i].is_active
                  /\ userRoles[i].valid_from <= now
                  /\ (userRoles[i].valid_until = NoExpiry
                      \/ userRoles[i].valid_until >= now)}

\* A selector returned one of the two rows of its role: the other is in its
\* scope too but inactive with a window that contains `now`.
C17_Witness ==
    /\ last.op = "selector.get_users_by_role" /\ last.only_valid
    /\ last.selected = {1}
    /\ 2 \in QueryScope
    /\ ~userRoles[2].is_active
    /\ userRoles[2].valid_from <= now
    /\ userRoles[2].valid_until >= now

\* ---------------------------------------------------------------------- C18
\* The ranks a user holds through currently valid assignments (by is_valid),
\* and the ranks held by anybody.
RanksHeld(rows, t, user) ==
    {level_rank(rows[i].role) : i \in {j \in DOMAIN rows :
                                          rows[j].user = user /\ is_valid(rows[j], t)}}

AllRanksHeld(rows, t) == UNION {RanksHeld(rows, t, u) : u \in Users}

\* C18: when assign_role succeeds for an assigned_by that is a user and not a
\* superuser, the role granted ranks strictly below every role the granter
\* validly holds at that moment (its level_rank is strictly greater); hence
\* the call leaves nobody with a lower level_rank than anybody held before
\* it, and a user who grants a role to itself holds no lower level_rank
\* after the call than before.
C18_NoAuthorityEscalation ==
    [][ ( /\ Idle
          /\ last'.op = "assign_role" /\ last'.raised = "none"
          /\ last'.by \in Users \ Superusers )
        => /\ RanksHeld(userRoles, now, last'.by) # {}
           /\ \E k \in RanksHeld(userRoles, now, last'.by) :
                 k < level_rank(last'.role)
           /\ \A k \in AllRanksHeld(userRoles', now) :
                 \E m \in AllRanksHeld(userRoles, now) : m <= k
           /\ last'.user = last'.by
              => \A k \in RanksHeld(userRoles', now, last'.by) :
                    \E m \in RanksHeld(userRoles, now, last'.by) : m <= k
      ]_vars

\* u2, a manager (rank 2), has granted the teacher role (rank 4) to u1.
C18_Witness ==
    /\ last.op = "assign_role" /\ last.raised = "none"
    /\ last.by = "u2" /\ last.user = "u1" /\ last.role = "teacher"
    /\ 2 \in RanksHeld(userRoles, now, "u2")
    /\ RanksHeld(userRoles, now, "u1") = {4}

\* ---------------------------------------------------------------------- C19
\* The active UserRole rows of a user for the role with this name.
ActiveRowsFor(rows, user, role_name) ==
    {i \in DOMAIN rows :
        rows[i].user = user /\ rows[i].role = role_name /\ rows[i].is_active}

\* C19 (as claimed): when a user is created with a user_type and the role of
\* that name is stored for the user's tenant (the roles are seeded), the new
\* user holds exactly one active UserRole for that role (the audit write
\* succeeding); when no role of that name exists the user is created with no
\* assignment and no error; and a later save of the user assigns nothing.
C19_DefaultRoleOnCreation ==
    [][ /\ ( Idle /\ last'.op = "create_user" /\ last'.role # ""
             /\ last'.outcome = "ok"
             /\ \E tenant \in Tenants : roles[<<last'.role, tenant>>] = 1 )
           => /\ last'.raised = "none"
              /\ Cardinality(ActiveRowsFor(userRoles', last'.user, last'.role)) = 1
        /\ ( Idle /\ last'.op = "create_user" /\ last'.role # ""
             /\ \A tenant \in Tenants \cup {NULL} : roles[<<last'.role, tenant>>] = 0 )
           => /\ last'.raised = "none"
              /\ userRoles' = userRoles
        /\ ( Idle /\ last'.op = "save_user" )
           => /\ last'.raised = "none"
              /\ userRoles' = userRoles
      ]_vars

\* What the handler does: it looks the role up with tenant IS NULL.  The
\* user gets the assignment exactly when one role of that name without a
\* tenant is stored (and the audit write does not undo it), whatever is
\* stored for the tenant; a later save assigns nothing.
C19_AssignsTenantlessRoleOnly ==
    [][ /\ ( Idle /\ last'.op = "create_user" )
           => /\ ( last'.role # "" /\ roles[<<last'.role, NULL>>] = 1
                   /\ last'.outcome = "ok" )
                 => /\ last'.raised = "none"
                    /\ Cardinality(ActiveRowsFor(userRoles', last'.user,
                                                 last'.role)) = 1
              /\ ( last'.role = "" \/ roles[<<last'.role, NULL>>] # 1 )
                 => userRoles' = userRoles
              /\ ( last'.role = "" \/ roles[<<last'.role, NULL>>] = 0 )
                 => last'.raised = "none"
        /\ ( Idle /\ last'.op = "save_user" )
           => /\ last'.raised = "none"
              /\ userRoles' = userRoles
      ]_vars

\* The codes the seed matrix lists for a role, as far as the members it names
\* are members of the enum.
ListedCodes(role_name) ==
    IF role_name = "principal" THEN get_all_permissions(Permissions)
    ELSE {Permissions[m] : m \in {MatrixMembers[role_name][j] :
                                     j \in DOMAIN MatrixMembers[role_name]}
                                \cap DOMAIN Permissions}

CodesLinkedTo(links, role_name) == {l[2] : l \in {k \in links : k[1] = role_name}}

\* C20 (as claimed): seeding a registered tenant, by seed_all or by
\* seed_for_tenant, completes without error, leaves principal linked to every
\* code of get_all_permissions() and every other seeded role linked to
\* exactly the codes the seed matrix lists for it.
C20_SeedGrantsMatrix ==
    [][ ( Idle /\ last'.op \in {"seed_all", "seed_for_tenant"} /\ tenants # {} )
        => /\ last'.raised = "none"
           /\ \A tenant \in tenants : \A r \in Roles : roles'[<<r, tenant>>] = 1
           /\ \A r \in Roles : CodesLinkedTo(rolePermissions', r) = ListedCodes(r)
      ]_vars

\* What the command does: the matrix literal names members the enum does not
\* define, so assigning the permissions raises AttributeError before any
\* RolePermission row is written.  seed_all rolls back and leaves every
\* table as it was; seed_for_tenant alone keeps the tenant's roles and
\* leaves the RolePermission table as it was.  Without a tenant seed_all
\* completes and stores the permissions and the superadmin role.
C20_SeedStopsAtMatrix ==
    [][ /\ ( Idle /\ last'.op = "seed_for_tenant" )
           => /\ last'.raised = "AttributeError"
              /\ rolePermissions' = rolePermissions
              /\ \A r \in Roles : roles'[<<r, last'.branch>>] = 1
        /\ ( Idle /\ last'.op = "seed_all" /\ tenants # {} )
           => /\ last'.raised = "AttributeError"
              /\ rolePermissions' = rolePermissions
              /\ roles' = roles
              /\ permissionTable' = permissionTable
        /\ ( Idle /\ last'.op = "seed_all" /\ tenants = {} )
           => /\ last'.raised = "none"
              /\ permissionTable' = permissionTable \cup CreatedCodes
              /\ roles'[<<"superadmin", NULL>>] = 1
              /\ rolePermissions' = rolePermissions
      ]_vars

\* C21 (as claimed): no two Role rows share the same (name, tenant) pair,
\* system-wide roles (tenant NULL) included.
C21_RoleNameUniquePerTenant ==
    \A k \in RoleKeys : roles[k] <= 1

\* What the code keeps: the pair is unique for roles that have a tenant (a
\* second save is rejected with ValidationError and stores nothing), and a
\* seeding run never adds a row for a pair that is already stored.
C21_UniqueWhereTenantSet ==
    \A k \in RoleKeys : k[2] # NULL => roles[k] <= 1

C21_SaveAndSeedNeverDuplicateTenantRole ==
    [][ /\ ( Idle /\ last'.op = "role_save" /\ last'.branch # NULL
             /\ roles[<<last'.role, last'.branch>>] >= 1 )
           => last'.raised = "ValidationError" /\ roles' = roles
        /\ ( Idle /\ last'.op \in {"seed_all", "seed_for_tenant"} )
           => \A k \in RoleKeys : roles[k] >= 1 => roles'[k] = roles[k]
      ]_vars

\* C22 (as claimed): a role with is_system_role set is never hard-deleted:
\* neither the admin's deletion of a role nor the cascade from the deletion
\* of its school removes a row that has the flag.
C22_SystemRoleNeverDeleted ==
    [][ ( Idle /\ last'.op \in {"role_delete", "school_delete"} )
        => \A k \in RoleKeys : roleIsSystem'[k] >= roleIsSystem[k]
      ]_vars

\* What the code does: the flag is stored and never read; a deletion removes
\* the row chosen, and the deletion of a school removes all its roles,
\* whatever their flag.
C22_DeletionIgnoresFlag ==
    [][ /\ ( Idle /\ last'.op = "role_delete" )
           => /\ last'.raised = "none"
              /\ roles'[<<last'.role, last'.branch>>]
                   = roles[<<last'.role, last'.branch>>] - 1
        /\ ( Idle /\ last'.op = "school_delete" )
           => \A k \in RoleKeys : k[2] = last'.branch => roles'[k] = 0
      ]_vars

\* The user is a superuser or holds the code through an assignment that
\* is_valid() now, whatever the branch of the assignment.
HoldsInSomeBranch(user, code) ==
    \/ is_superuser(user)
    \/ \E i \in DOMAIN userRoles :
          /\ userRoles[i].user = user
          /\ is_valid(userRoles[i], now)
          /\ <<userRoles[i].role, code>> \in rolePermissions
          /\ code \in Perms /\ permissionActive[code]

\* C23: a permission check made with no branch applies no branch filter: it
\* is granted exactly when the user holds the code through a valid
\* assignment of any branch; the decorated views and the template filters,
\* which pass no branch, decide the same way.
C23_UnscopedCheckIgnoresBranch ==
    /\ ( last.op \in {"user_has_permission", "tag.has_permission"}
         /\ last.branch = NULL /\ last.user \in Users )
       => ( last.ret <=> HoldsInSomeBranch(last.user, last.code) )
    /\ ( last.op = "view.require_permission" /\ last.user \in Users )
       => ( last.ret <=> HoldsInSomeBranch(last.user, last.code) )
    /\ ( last.op = "view.require_any_permission" /\ last.user \in Users )
       => ( last.ret <=> \E j \in DOMAIN last.list :
                            HoldsInSomeBranch(last.user, last.list[j]) )
    /\ ( last.op = "tag.has_any_permission" /\ last.user \in Users )
       => ( last.ret <=> \E j \in DOMAIN split(last.list) :
                            HoldsInSomeBranch(last.user, split(last.list)[j]) )

\* u1, whose only valid assignment is scoped to branch B1, passed the check
\* of a decorated view.
C23_Witness ==
    /\ last.op = "view.require_permission"
    /\ last.user = "u1"
    /\ last.ret
    /\ \A i \in DOMAIN userRoles : userRoles[i].branch = "B1"

\* C24: the hierarchy check of assign_role and revoke_role compares
\* level_rank values only: an acting user who is not a superuser is let
\* through exactly when the best rank among all its valid assignments, of any
\* school, is strictly better than the rank of the target role, whatever
\* school the target role belongs to.
C24_HierarchyComparesRanksOnly ==
    [][ ( /\ Idle
          /\ last'.op \in {"assign_role", "revoke_role"}
          /\ last'.by \in Users \ Superusers )
        => ( last'.raised # "PermissionDenied"
             <=> \E k \in RanksHeld(userRoles, now, last'.by) :
                    k < level_rank(last'.role) )
      ]_vars

\* u1, whose roles are all roles of the school T1 (manager, rank 2), has
\* assigned the teacher role of the school T2 to u2.
C24_Witness ==
    /\ last.op = "assign_role" /\ last.raised = "none"
    /\ last.by = "u1" /\ last.user = "u2" /\ last.role = "teacher@T2"
    /\ \A i \in DOMAIN userRoles :
          userRoles[i].user = "u1" => tenant_of_role(userRoles[i].role) = "T1"

\* u1, whose roles are all roles of the school T1, has revoked an assignment
\* of a role of the school T2.
C24_WitnessRevoke ==
    /\ last.op = "revoke_role" /\ last.raised = "none"
    /\ last.by = "u1" /\ tenant_of_role(last.role) = "T2"
    /\ \A i \in DOMAIN userRoles :
          userRoles[i].user = "u1" => tenant_of_role(userRoles[i].role) = "T1"

\* What user_has_permission and get_user_permissions answer in this state.
Decision(user, code, branch) ==
    user_has_permission(userRoles, rolePermissions, permissionActive, now, user,
                        code, branch, "ok").ret

CodesHeld(user, branch) ==
    get_user_permissions(userRoles, rolePermissions, permissionActive, now, user,
                         branch)

\* C25: the answers of user_has_permission and get_user_permissions do not
\* depend on Role.is_active: switching a role off or on changes no answer,
\* for any user, code and branch.
C25_RoleActiveFlagIgnored ==
    [][ roleIsActive' # roleIsActive
        => /\ \A user \in Callers, code \in Perms, branch \in CheckBranches :
                 Decision(user, code, branch)' = Decision(user, code, branch)
           /\ \A user \in Users, branch \in CheckBranches :
                 CodesHeld(user, branch)' = CodesHeld(user, branch)
      ]_vars

\* u1, whose one assignment is to the manager role, which is switched off, was
\* granted a permission linked to that role.
C25_Witness ==
    /\ last.op = "user_has_permission" /\ last.user = "u1" /\ last.ret
    /\ \A i \in DOMAIN userRoles : userRoles[i].role = "manager"
    /\ ~roleIsActive[<<"manager", "T1">>]

\* Some stored assignment of the user has exactly this branch and is_active.
ActiveRowForBranch(user, branch) ==
    \E i \in DOMAIN userRoles :
        /\ userRoles[i].user = user
        /\ userRoles[i].branch = branch
        /\ userRoles[i].is_active

C26_WitnessTenantWide ==
    /\ last.op = "process_view" /\ last.user = "u1" /\ ~last.ret
    /\ last.raised = "PermissionDenied"
    /\ accounts["u1"] = "accountant" /\ last.branch = "B1"
    /\ \E i \in DOMAIN userRoles :
          userRoles[i].branch = NULL /\ is_valid(userRoles[i], now)

\* C27 (as claimed): a school with an active branch never reaches a state
\* with no active branch through branch_delete requests, concurrent ones
\* included.
C27_SomeBranchStaysActive ==
    \E b \in Branches : branchActive[b]

\* What the view guarantees: a request deactivates its branch unless the
\* count it read was at most one and the branch it read was active; a
\* request that is handled alone (no other request between its reads and
\* its write) leaves an active branch.
C27_PostDecidesOnItsOwnReads ==
    [][ \A p \in Procs :
          ( branchDelete[p].pc = "counted" /\ branchDelete'[p].pc = "idle" )
          => /\ ( branchDelete[p].active_count <= 1 /\ branchDelete[p].is_active )
                => branchActive' = branchActive
             /\ ( /\ branchDelete[p].active_count
                       = Cardinality({b \in Branches : branchActive[b]})
                  /\ branchDelete[p].is_active = branchActive[branchDelete[p].branch]
                  /\ \E b \in Branches : branchActive[b] )
                => \E b \in Branches : branchActive'[b]
      ]_vars

ActiveFeeStructures(rows) == {i \in DOMAIN rows : rows[i]}

\* C28 (as claimed): at most one BranchFeeStructure row of a branch has
\* is_active set, after any sequence of saves, concurrent ones included.
C28_OneActiveFeeStructure ==
    Cardinality(ActiveFeeStructures(feeStructures)) <= 1

\* What save() guarantees: its UPDATE leaves no other row of the branch
\* active at the moment it runs, and a save whose write follows its UPDATE
\* with no other write in between leaves at most one active row.
C28_SaveClearsOthersWhenItRuns ==
    [][ \A p \in Procs :
          /\ ( feeSave[p].pc = "idle" /\ feeSave'[p].pc = "updated"
               /\ feeSave'[p].is_active )
             => ActiveFeeStructures(feeStructures') \subseteq {feeSave'[p].pk}
          /\ ( feeSave[p].pc = "updated" /\ feeSave'[p].pc = "idle"
               /\ ActiveFeeStructures(feeStructures) \subseteq {feeSave[p].pk} )
             => Cardinality(ActiveFeeStructures(feeStructures')) <= 1
      ]_vars

\* What the claim asks of a StudentFee row.
AmountPaidWithinNet(fee) ==
    /\ 0 <= fee.amount_paid
    /\ fee.amount_paid <= fee.net_amount

StatusFollowsAmounts(fee) ==
    fee.status \in {"paid", "partial"}
        => (fee.status = "paid" <=> fee.amount_paid = fee.net_amount)

\* C29 (as claimed): for every StudentFee, across any sequence of payment
\* recordings and special-fee edits, 0 <= amount_paid <= net_amount, and
\* once a payment has been recorded the status is 'paid' exactly when
\* amount_paid equals net_amount and 'partial' otherwise.
C29_FeeAmountsAndStatusConsistent ==
    studentFee # NoFee
        => /\ AmountPaidWithinNet(studentFee)
           /\ StatusFollowsAmounts(studentFee)

\* What the payment code guarantees: a payment recorded on a consistent
\* fee, by the model method or the view, leaves it consistent with a
\* status of 'paid' or 'partial', and the view saves nothing on a fee
\* whose status is 'paid'.
C29_PaymentsKeepFeeConsistent ==
    [][ /\ ( /\ last'.op \in {"record_payment", "record_payment_view"}
             /\ last'.ret
             /\ AmountPaidWithinNet(studentFee)
             /\ StatusFollowsAmounts(studentFee) )
           => /\ AmountPaidWithinNet(studentFee')
              /\ StatusFollowsAmounts(studentFee')
              /\ studentFee'.status \in {"paid", "partial"}
        /\ ( last'.op = "record_payment_view" /\ studentFee.status = "paid" )
           => ( ~ last'.ret /\ studentFee' = studentFee )
      ]_vars

\* The active students enrolled in sections of a school, of one of its
\* branches when a branch is given.
ActiveStudentsOf(school, branch) ==
    {i \in StudentIds :
        /\ students[i] # NoStudent
        /\ students[i].is_active
        /\ school_of_branch(students[i].branch) = school
        /\ branch # NULL => students[i].branch = branch}

\* C30 (as claimed): PrincipalDashboardService for a principal reports the
\* owned school as context['school'] and a total_students equal to the
\* number of active students of that school (of the selected branch when
\* one is set); students of another school never count.
C30_PrincipalSeesOwnSchoolOnly ==
    ( /\ last.op \in {"PrincipalDashboardService", "DashboardView"}
      /\ owned_school(last.user) # NULL )
        => /\ last.code = owned_school(last.user)
           /\ last.row = Cardinality(ActiveStudentsOf(owned_school(last.user),
                                                      last.branch))

\* What the code guarantees: the school reported is the owned school; the
\* count is that of the own school whenever the branch of the service is
\* None or a branch of the owned school, which is always so through the
\* view.
C30_OwnSchoolWhenBranchIsOwn ==
    ( /\ last.op \in {"PrincipalDashboardService", "DashboardView"}
      /\ owned_school(last.user) # NULL )
        => /\ last.code = owned_school(last.user)
           /\ last.op = "DashboardView"
                => ( last.branch # NULL
                        => school_of_branch(last.branch) = owned_school(last.user) )
           /\ ( last.branch # NULL
                  => school_of_branch(last.branch) = owned_school(last.user) )
                => last.row = Cardinality(ActiveStudentsOf(
                                  owned_school(last.user), last.branch))

====
